---- MODULE Spec2Model ----
(***************************************************************************)
(* A model of the o2despy discrete-event kernel: Sandbox (tree of local   *)
(* future-event lists, one clock stored at the root, driver calls),       *)
(* Event (ordered by scheduled_time, then index) and HourCounter.         *)
(*                                                                         *)
(* Instants are whole hours counted from dt.datetime.min, durations are   *)
(* whole hours (possibly negative).  The user callable bound to an event  *)
(* is arbitrary code: what it does (return, raise, schedule, observe a    *)
(* counter) is an input drawn when the event is invoked.                  *)
(***************************************************************************)
EXTENDS Integers, Sequences, FiniteSets, TLC

\* ------------------------------------------------------------- bounds
MaxTime == 1        \* latest instant the model schedules or runs to
MaxEvents == 2      \* cap on Event._count (number of events ever created)
MaxCounters == 4    \* cap on the number of HourCounter objects
MaxCount == 1       \* largest count value observed
MaxClock == 2       \* latest hour the clock is set to where a counter is followed
MaxLevel == 2       \* largest count the user sets a counter to
MaxTurnover == 2    \* cap on a counter's total_increment and total_decrement
MaxGates == 2       \* cap on the number of threading.Event objects created
MaxHours == 3       \* cap on a counter's total_hours
MaxScript == 3      \* most statements of a replayed program
MaxArity == 2       \* most parameters of a callable, most declared arguments of an Action
MaxSubactions == 2  \* cap on the subactions of an Action
MaxActions == 3     \* cap on the number of Action objects built
MaxDemoEvents == 7  \* cap on Event._count where the demo model is run

\* ---------------------------------------------------------- constants
DatetimeMin == 0    \* dt.datetime.min, the clock of a fresh sandbox

None == "None"
SB == {"R", "C", "G"}                 \* the Sandbox objects constructed
Time == DatetimeMin .. MaxTime
Deltas == {-1, 0, 1}                  \* dt.timedelta arguments

\* clock_time argument of schedule
ClockArgs ==
    {[kind |-> "none", v |-> 0]}
        \cup {[kind |-> "timedelta", v |-> d] : d \in Deltas}
        \cup {[kind |-> "datetime", v |-> t] : t \in Time}

\* an Event: index, scheduled_time, owner; seq records which schedule call
\* (first, second, ...) created it.  NoEvent stands for None.
NoEvent == [index |-> 0, scheduled_time |-> 0, owner |-> None, seq |-> 0]

\* the threads other than the driver's, and a thread that is in no call:
\* op is the method called, at the root it was handed to, pc the line the
\* thread is at, gate the threading.Event it waits on, result what the
\* call returned
Threads == {"t1", "t2"}
NoGate == 0         \* self._thread_event is None
NoThreadCall ==
    [op |-> "none", at |-> None, pc |-> "idle", gate |-> NoGate, result |-> "none"]

VARIABLES
    parent,          \* Sandbox._parent
    children,        \* Sandbox._children (list)
    clock,           \* Sandbox._clock_time, stored per sandbox
    fel,             \* Sandbox._future_event_list (SortedSet, kept as a sorted list)
    eventCount,      \* Event._count (class attribute)
    scheduleCalls,   \* number of schedule calls that created an event (history)
    isFirst,         \* Sandbox.is_first_event_scheduled
    firstTime,       \* Sandbox.first_event_clock_time
    realTimeLast,    \* Sandbox._real_time_for_last_run is not None
    event_count,     \* Sandbox._event_count
    thread_event,    \* Sandbox._thread_event: a threading.Event (by id) or NoGate
    flags,           \* the threading.Event objects whose flag is set
    threads,         \* the external threads calling Sandbox.pause / resume
    seed,            \* Sandbox._seed
    rng,             \* the states of the process-wide streams random and np.random
    user,            \* a calling program: its statements, how far each of its
                     \* runs has come, and what each run has read back
    actions,         \* the Action objects the caller has built, by id
    invoked,         \* the calls the subactions have received, in order
    on_warmup,       \* Sandbox._on_warmup._subactions (list)
    hour_counters,   \* Sandbox._hour_counters (list of counter ids)
    hc,              \* the HourCounter objects, by id
    pc,              \* position of the calling thread: idle, loop (in a driver
                     \* loop), invoking (in an event's action), on_warmup,
                     \* returned (a call has just returned or raised)
    call,            \* the driver/API call in progress or last completed
    cur,             \* the event whose action is being invoked
    demo             \* the Generator, Queue and Server of the demo model

vars == <<parent, children, clock, fel, eventCount, scheduleCalls, isFirst, firstTime,
          realTimeLast, event_count, thread_event, flags, threads, seed, rng, user, actions, invoked,
          on_warmup, hour_counters, hc, pc, call, cur, demo>>


\* ------------------------------------------------------------ helpers
Range(q) == {q[i] : i \in 1 .. Len(q)}

RECURSIVE SubTree(_)
\* the sandboxes reached from s through the children lists
SubTree(s) == {s} \cup UNION {SubTree(children[s][i]) : i \in 1 .. Len(children[s])}

\* the events pending in the tree under r
Pending(r) == UNION {Range(fel[s]) : s \in SubTree(r)}

IsRoot(r) == \A q \in SB : r \notin Range(children[q])
TreeRoot(s) == CHOOSE r \in SB : IsRoot(r) /\ s \in SubTree(r)

\* ------------------------------------------------------------- Event
\* mutant: events compared by scheduled_time alone
EventLtTimeOnly(a, b) == a.scheduled_time < b.scheduled_time

\* Event.__lt__
EventLt(a, b) ==
    IF a.scheduled_time = b.scheduled_time
    THEN a.index < b.index
    ELSE a.scheduled_time < b.scheduled_time

\* SortedSet.add of an event not yet in the set
SortedAdd(q, e) ==
    LET k == Cardinality({i \in 1 .. Len(q) : EventLt(q[i], e)})
    IN SubSeq(q, 1, k) \o <<e>> \o SubSeq(q, k + 1, Len(q))

\* mutant: discard leaves the set as it was
DiscardNothing(q, e) == q

\* SortedSet.discard
Discard(q, e) == SelectSeq(q, LAMBDA x : x.index # e.index)

\* ----------------------------------------------------------- Sandbox
RECURSIVE ClockTime(_)
\* Sandbox.clock_time
ClockTime(s) == IF parent[s] = None THEN clock[s] ELSE ClockTime(parent[s])

\* mutant: the call is executed by the sandbox it was made on
DelegateSelf(s) == s

RECURSIVE Delegate(_)
\* the sandbox that executes a driver call made on s
\* (if self._parent is not None: return self._parent.<driver>(...))
Delegate(s) == IF parent[s] = None THEN s ELSE Delegate(parent[s])

RECURSIVE AncestorsOrSelf(_)
AncestorsOrSelf(s) ==
    IF parent[s] = None THEN {s} ELSE {s} \cup AncestorsOrSelf(parent[s])

RECURSIVE HeadEvent(_)
RECURSIVE HeadFold(_, _, _)
\* the loop over self._children of Sandbox.head_event
HeadFold(s, h, i) ==
    IF i > Len(children[s]) THEN h
    ELSE LET ch == HeadEvent(children[s][i])
         IN IF h = NoEvent \/ (ch # NoEvent /\ EventLt(ch, h))
            THEN HeadFold(s, ch, i + 1)
            ELSE HeadFold(s, h, i + 1)

\* mutant: the head of the sandbox's own list, the children not consulted
HeadEventOwnList(s) == IF Len(fel[s]) > 0 THEN fel[s][1] ELSE NoEvent

\* Sandbox.head_event
HeadEvent(s) ==
    HeadFold(s, IF Len(fel[s]) > 0 THEN fel[s][1] ELSE NoEvent, 1)

\* the sandboxes in the order they were constructed; each constructor
\* creates the sandbox's main hour counter
Constructed == <<"R", "C", "G">>
MainHc(s) == CHOOSE h \in 1 .. Len(Constructed) : Constructed[h] = s

\* the bound methods held by an on_warmup Action
WarmupHandler(s) == [kind |-> "_warmup_handler", sandbox |-> s, id |-> 0]
HcWarmup(s, h) == [kind |-> "hc.warmup", sandbox |-> s, id |-> h]

\* HourCounter.__init__ (initial_time omitted, keep_history omitted)
NewHourCounter(s) ==
    [sandbox |-> s, initial_time |-> DatetimeMin, last_time |-> DatetimeMin,
     last_count |-> 0, cum_value |-> 0, total_hours |-> 0,
     total_increment |-> 0, total_decrement |-> 0, paused |-> FALSE,
     hours_for_count |-> <<>>,
     keep_history |-> FALSE,
     history |-> <<>>,           \* self._history, which exists under keep_history only
     ever_paused |-> FALSE,      \* history: pause() has taken effect on it
     asked_history |-> FALSE]    \* history: the keep_history its creator was called with

\* Sandbox.__init__(seed=0): the seed a sandbox is constructed with
DefaultSeed == 0
Seeds == {0, 1}

\* the Mersenne Twister streams of random and np.random, cut down to a
\* stream of RngStates states that a seed positions and a draw advances
RngStates == 8
Seeded(v) == [py |-> v % RngStates, np |-> v % RngStates]
Stepped(st) == (st * 5 + 3) % RngStates
Drawn(st) == (st \div 2) % 2

\* the two runs of a calling program: the first on sandbox R, the second
\* on sandbox C; a program that has no statement yet
Runs == <<"R", "C">>
NoUser ==
    [script |-> <<>>,
     pos |-> [e \in {"R", "C"} |-> 0],
     seen |-> [e \in {"R", "C"} |-> <<>>]]

\* MMcQueuePull(capacity=1, ...), the demo's model
Capacity == 1

\* the demo model before an event has fired: count is Generator.count,
\* number_waiting and queue are the Queue's, number_pending,
\* number_in_service, pending_list and service_list the Server's (each
\* counter by its last_count); entities is Entity._count, handlers the
\* action and load of every event by index, draws the number of
\* random.expovariate calls made (history)
NoDemo ==
    [count |-> 0, number_waiting |-> 0, queue |-> <<>>,
     number_pending |-> 0, number_in_service |-> 0,
     pending_list |-> <<>>, service_list |-> <<>>,
     entities |-> 0, handlers |-> <<>>, draws |-> 0]

NoCall ==
    [op |-> "none", at |-> None, terminate |-> 0, n |-> 0, result |-> "none"]

Init ==
    /\ parent = [s \in SB |-> None]
    /\ children = [s \in SB |-> <<>>]
    /\ clock = [s \in SB |-> DatetimeMin]
    /\ fel = [s \in SB |-> <<>>]
    /\ eventCount = 0
    /\ scheduleCalls = 0
    /\ isFirst = [s \in SB |-> FALSE]
    /\ firstTime = [s \in SB |-> DatetimeMin]
    /\ realTimeLast = [s \in SB |-> FALSE]
    /\ event_count = [s \in SB |-> 0]
    /\ thread_event = [s \in SB |-> NoGate]
    /\ flags = {}
    /\ threads = [th \in Threads |-> NoThreadCall]
    /\ seed = [s \in SB |-> DefaultSeed]
    /\ rng = Seeded(DefaultSeed)
    /\ user = NoUser
    /\ actions = <<>>
    /\ invoked = <<>>
    /\ on_warmup = [s \in SB |-> <<WarmupHandler(s), HcWarmup(s, MainHc(s))>>]
    /\ hour_counters = [s \in SB |-> <<MainHc(s)>>]
    /\ hc = [h \in 1 .. Len(Constructed) |-> NewHourCounter(Constructed[h])]
    /\ pc = "idle"
    /\ call = NoCall
    /\ cur = NoEvent
    /\ demo = NoDemo

\* the add_child calls a model's constructor makes: a sandbox adopts
\* sandboxes constructed after it
AddChildCalls == {<<"R", "C">>, <<"C", "G">>, <<"R", "G">>}

\* Sandbox.add_child, applied to a parentless child that is not an ancestor
\* of p (the calls that build a tree)
AddChild(p, c) ==
    /\ pc = "idle"
    /\ <<p, c>> \in AddChildCalls
    /\ parent[c] = None
    /\ p \notin SubTree(c)
    /\ children' = [children EXCEPT ![p] = Append(@, c)]
    /\ parent' = [parent EXCEPT ![c] = p]
    /\ on_warmup' = [on_warmup EXCEPT ![p] = @ \o on_warmup[c]]
    /\ call' = NoCall
    /\ UNCHANGED <<clock, fel, eventCount, scheduleCalls, isFirst, firstTime, realTimeLast,
                   event_count, thread_event, flags, threads, seed, rng, user, actions, invoked, hour_counters, hc, pc, cur, demo>>

\* mutant: the sandbox's own stored _clock_time used in place of clock_time
ScheduledTimeOwnClock(s, arg) ==
    CASE arg.kind = "none" -> clock[s] + 0
      [] arg.kind = "timedelta" -> clock[s] + arg.v
      [] arg.kind = "datetime" -> arg.v

\* the instant schedule computes from its clock_time argument
ScheduledTime(s, arg) ==
    CASE arg.kind = "none" -> ClockTime(s) + 0
      [] arg.kind = "timedelta" -> ClockTime(s) + arg.v
      [] arg.kind = "datetime" -> arg.v

\* datetime + timedelta below dt.datetime.min raises OverflowError
Overflows(s, arg) ==
    arg.kind \in {"none", "timedelta"} /\ ScheduledTime(s, arg) < DatetimeMin

\* Event.__init__: Event._count += 1; self._index = Event._count
\* (one counter for the events of every sandbox)
NewIndex(owner) == eventCount + 1

\* Sandbox.schedule with a callable action: the first-event bookkeeping,
\* then the new Event added to the sandbox's own list
DoSchedule(s, arg) ==
    /\ isFirst' = IF isFirst[s] THEN isFirst
                  ELSE [x \in SB |-> isFirst[x] \/ x \in AncestorsOrSelf(s)]
    /\ firstTime' = IF isFirst[s] THEN firstTime
                    ELSE [firstTime EXCEPT ![Delegate(s)] = ClockTime(s)]
    /\ IF Overflows(s, arg)
       THEN UNCHANGED <<fel, eventCount, scheduleCalls>>
       ELSE LET e == [index |-> NewIndex(s),
                      scheduled_time |-> ScheduledTime(s, arg),
                      owner |-> s,
                      seq |-> scheduleCalls + 1]
            IN /\ fel' = [fel EXCEPT ![s] = SortedAdd(@, e)]
               /\ eventCount' = eventCount + 1
               /\ scheduleCalls' = scheduleCalls + 1

CanSchedule(s, arg) ==
    /\ eventCount < MaxEvents
    /\ Overflows(s, arg) \/ ScheduledTime(s, arg) \in Time

\* schedule called by the user between driver calls
Schedule(s, arg) ==
    /\ pc = "idle"
    /\ CanSchedule(s, arg)
    /\ DoSchedule(s, arg)
    /\ call' = NoCall
    /\ UNCHANGED <<parent, children, clock, realTimeLast, event_count, thread_event, flags, threads, seed, rng, user, actions, invoked,
                   on_warmup, hour_counters, hc, pc, cur, demo>>

\* mutant: the head event invoked while still in its owner's list
RunOnceFireInPlace(at, head) ==
    /\ fel' = fel
    /\ clock' = [clock EXCEPT ![at] = head.scheduled_time]
    /\ cur' = head
    /\ pc' = "invoking"

\* mutant: the head event invoked before the clock is advanced
RunOnceFireStaleClock(at, head) ==
    /\ fel' = [fel EXCEPT ![head.owner] = Discard(@, head)]
    /\ clock' = clock
    /\ cur' = head
    /\ pc' = "invoking"

\* Sandbox.run_once at the root, lines 432-437 up to the invocation of the
\* head event's action
RunOnceFire(at, head) ==
    /\ fel' = [fel EXCEPT ![head.owner] = Discard(@, head)]
    /\ clock' = [clock EXCEPT ![at] = head.scheduled_time]
    /\ cur' = head
    /\ pc' = "invoking"

\* a driver call made on sandbox s, handed up to the root
Frame(op, s) ==
    [NoCall EXCEPT !.op = op, !.at = Delegate(s), !.result = "running"]

\* Sandbox.run_once
RunOnce(s) ==
    LET at == Delegate(s)
        head == HeadEvent(at)
        f == Frame("run_once", s)
    IN /\ pc = "idle"
       /\ IF head = NoEvent
          THEN /\ call' = [f EXCEPT !.result = "false"]
               /\ pc' = "returned"
               /\ UNCHANGED <<fel, clock, cur>>
          ELSE /\ call' = f
               /\ RunOnceFire(at, head)
       /\ UNCHANGED <<parent, children, eventCount, scheduleCalls, isFirst, firstTime,
                      realTimeLast, event_count, thread_event, flags, threads, seed, rng, user, actions, invoked, on_warmup, hour_counters, hc, demo>>

\* Sandbox.run_until: the call is handed to the root, which enters its loop
RunUntilCall(s, t, op) ==
    /\ pc = "idle"
    /\ call' = [Frame(op, s) EXCEPT !.terminate = t]
    /\ pc' = "loop"
    /\ UNCHANGED <<parent, children, clock, fel, eventCount, scheduleCalls, isFirst, firstTime,
                   realTimeLast, event_count, thread_event, flags, threads, seed, rng, user, actions, invoked, on_warmup, hour_counters, hc, cur, demo>>

\* a driver call that raises before it changes anything
RaiseCall(s, op) ==
    /\ pc = "idle"
    /\ call' = [Frame(op, s) EXCEPT !.result = "error"]
    /\ pc' = "returned"
    /\ UNCHANGED <<parent, children, clock, fel, eventCount, scheduleCalls, isFirst, firstTime,
                   realTimeLast, event_count, thread_event, flags, threads, seed, rng, user, actions, invoked, on_warmup, hour_counters, hc, cur, demo>>

RunUntil(s, t) == RunUntilCall(s, t, "run_until")

\* Sandbox.run_for_period: run_until(self.clock_time + duration) at the root
\* (a sum below dt.datetime.min raises OverflowError)
RunForPeriod(s, d) ==
    LET t == clock[Delegate(s)] + d
    IN IF t < DatetimeMin
       THEN RaiseCall(s, "run_for_period")
       ELSE t \in Time /\ RunUntilCall(s, t, "run_for_period")

\* Sandbox.run_multiple_times
RunMultipleTimes(s, n) ==
    /\ pc = "idle"
    /\ call' = [Frame("run_multiple_times", s) EXCEPT !.n = n]
    /\ pc' = "loop"
    /\ UNCHANGED <<parent, children, clock, fel, eventCount, scheduleCalls, isFirst, firstTime,
                   realTimeLast, event_count, thread_event, flags, threads, seed, rng, user, actions, invoked, on_warmup, hour_counters, hc, cur, demo>>

\* Sandbox.run_at_speed: the first call records the wall-clock marker; a
\* later call adds a float (total_seconds() * speed) to the datetime
\* clock_time, which raises TypeError before anything is changed
RunAtSpeed(s) ==
    LET at == Delegate(s)
    IN IF realTimeLast[at]
       THEN RaiseCall(s, "run_at_speed")
       ELSE /\ pc = "idle"
            /\ realTimeLast' = [realTimeLast EXCEPT ![at] = TRUE]
            /\ call' = [Frame("run_at_speed", s) EXCEPT !.result = "true"]
            /\ pc' = "returned"
            /\ UNCHANGED <<parent, children, clock, fel, eventCount, scheduleCalls, isFirst,
                           firstTime, event_count, thread_event, flags, threads, seed, rng, user, actions, invoked, on_warmup, hour_counters, hc, cur, demo>>

\* Sandbox.run(**kwargs)
Run(s, kw, v) ==
    CASE kw = "none" -> v = 0 /\ RunOnce(s)
      [] kw = "terminate" -> v \in Time /\ RunUntil(s, v)
      [] kw = "duration" -> v \in Deltas /\ RunForPeriod(s, v)
      [] kw = "event_count" -> v \in 0 .. MaxEvents /\ RunMultipleTimes(s, v)
      [] kw = "speed" -> v = 1 /\ RunAtSpeed(s)

\* Sandbox.warmup_until: self.run(terminate=till), then self._on_warmup.invoke()
WarmupUntil(s, t) == RunUntilCall(s, t, "warmup_until")

\* Sandbox.warmup_for_period
WarmupForPeriod(s, d) ==
    LET t == clock[Delegate(s)] + d
    IN IF t < DatetimeMin
       THEN RaiseCall(s, "warmup_for_period")
       ELSE t \in Time /\ RunUntilCall(s, t, "warmup_for_period")

UntilOps == {"run_until", "run_for_period", "warmup_until", "warmup_for_period"}
WarmupOps == {"warmup_until", "warmup_for_period"}

\* mutant: the loop also stops at an event scheduled exactly at terminate
RunUntilExitsAtTerminate(head, terminate) ==
    head = NoEvent \/ head.scheduled_time >= terminate

\* the exit test of run_until's loop (line 455)
RunUntilExits(head, terminate) ==
    head = NoEvent \/ head.scheduled_time > terminate

\* one pass of the while-loop of run_until (lines 453-458)
RunUntilLoop ==
    LET at == call.at
        head == HeadEvent(at)
    IN /\ pc = "loop"
       /\ call.op \in UntilOps
       /\ IF RunUntilExits(head, call.terminate)
          THEN /\ clock' = [clock EXCEPT ![at] = call.terminate]
               /\ call' = [call EXCEPT !.result = IF head # NoEvent THEN "true" ELSE "false"]
               /\ pc' = IF call.op \in WarmupOps THEN "on_warmup" ELSE "returned"
               /\ UNCHANGED <<fel, cur>>
          ELSE /\ RunOnceFire(at, head)
               /\ UNCHANGED call
       /\ UNCHANGED <<parent, children, eventCount, scheduleCalls, isFirst, firstTime,
                      realTimeLast, event_count, thread_event, flags, threads, seed, rng, user, actions, invoked, on_warmup, hour_counters, hc, demo>>

\* one pass of the while-loop of run_multiple_times (lines 488-492)
RunMultipleTimesLoop ==
    LET at == call.at
        head == HeadEvent(at)
    IN /\ pc = "loop"
       /\ call.op = "run_multiple_times"
       /\ IF call.n > 0
          THEN IF head = NoEvent
               THEN /\ call' = [call EXCEPT !.result = "false"]
                    /\ pc' = "returned"
                    /\ UNCHANGED <<fel, clock, cur>>
               ELSE /\ RunOnceFire(at, head)
                    /\ UNCHANGED call
          ELSE /\ call' = [call EXCEPT !.result = "true"]
               /\ pc' = "returned"
               /\ UNCHANGED <<fel, clock, cur>>
       /\ UNCHANGED <<parent, children, eventCount, scheduleCalls, isFirst, firstTime,
                      realTimeLast, event_count, thread_event, flags, threads, seed, rng, user, actions, invoked, on_warmup, hour_counters, hc, demo>>

\* mutant: run_multiple_times goes round again with its count as it was
AfterInvokeKeepsCount ==
    /\ cur' = NoEvent
    /\ IF call.op = "run_once"
       THEN pc' = "returned" /\ call' = [call EXCEPT !.result = "true"]
       ELSE pc' = "loop" /\ call' = call

\* where the driver continues when head.invoke() returns
AfterInvoke ==
    /\ cur' = NoEvent
    /\ IF call.op = "run_once"
       THEN pc' = "returned" /\ call' = [call EXCEPT !.result = "true"]
       ELSE pc' = "loop" /\ call' = [call EXCEPT !.n = IF call.op = "run_multiple_times"
                                                       THEN call.n - 1 ELSE call.n]

\* the exception of the action leaves run_once and every driver above it
RaiseOut ==
    /\ cur' = NoEvent
    /\ pc' = "returned"
    /\ call' = [call EXCEPT !.result = "error"]

\* head.invoke(): the action returns without touching the kernel
InvokeReturn ==
    /\ pc = "invoking"
    /\ AfterInvoke
    /\ UNCHANGED <<parent, children, clock, fel, eventCount, scheduleCalls, isFirst, firstTime,
                   realTimeLast, event_count, thread_event, flags, threads, seed, rng, user, actions, invoked, on_warmup, hour_counters, hc, demo>>

\* head.invoke(): the action raises
InvokeRaise ==
    /\ pc = "invoking"
    /\ RaiseOut
    /\ UNCHANGED <<parent, children, clock, fel, eventCount, scheduleCalls, isFirst, firstTime,
                   realTimeLast, event_count, thread_event, flags, threads, seed, rng, user, actions, invoked, on_warmup, hour_counters, hc, demo>>

\* head.invoke(): the action calls schedule on sandbox s and returns
InvokeSchedule(s, arg) ==
    /\ pc = "invoking"
    /\ CanSchedule(s, arg)
    /\ DoSchedule(s, arg)
    /\ IF Overflows(s, arg) THEN RaiseOut ELSE AfterInvoke
    /\ UNCHANGED <<parent, children, clock, realTimeLast, event_count, thread_event, flags, threads, seed, rng, user, actions, invoked,
                   on_warmup, hour_counters, hc, demo>>

\* a clock_time argument of schedule that is neither None, a timedelta, a
\* datetime nor a pd.Timestamp
OtherArg == [kind |-> "other", v |-> 0]

\* mutant: only the type of clock_time is checked
ClockTimeTypeError(callable, arg) == arg.kind = "other"

\* schedule raises TypeError: the action is not callable (line 373), or the
\* clock_time is of no accepted type (line 384)
ScheduleTypeError(callable, arg) == ~callable \/ arg.kind = "other"

\* lines 369-371 of schedule, which run before the arguments are checked
UpdateFirstEvent(s) ==
    /\ isFirst' = IF isFirst[s] THEN isFirst
                  ELSE [x \in SB |-> isFirst[x] \/ x \in AncestorsOrSelf(s)]
    /\ firstTime' = IF isFirst[s] THEN firstTime
                    ELSE [firstTime EXCEPT ![Delegate(s)] = ClockTime(s)]

\* Sandbox.schedule called by the user with any arguments: callable says
\* whether the action argument is callable
ScheduleChecked(s, callable, arg) ==
    /\ pc = "idle"
    /\ IF ScheduleTypeError(callable, arg)
       THEN /\ UpdateFirstEvent(s)
            /\ UNCHANGED <<fel, eventCount, scheduleCalls>>
            /\ call' = [NoCall EXCEPT !.op = "schedule", !.at = s, !.result = "error"]
       ELSE /\ CanSchedule(s, arg)
            /\ DoSchedule(s, arg)
            /\ call' = [NoCall EXCEPT !.op = "schedule", !.at = s,
                                      !.result = IF Overflows(s, arg)
                                                 THEN "error" ELSE "none"]
    /\ pc' = "returned"
    /\ UNCHANGED <<parent, children, clock, realTimeLast, event_count, thread_event, flags, threads, seed, rng, user, actions, invoked,
                   on_warmup, hour_counters, hc, cur, demo>>

\* ------------------------------------------------------- HourCounter
\* dict update self._hours_for_count[k] += hours (the key created at 0)
AddHours(f, k, hours) ==
    IF k \in DOMAIN f THEN [f EXCEPT ![k] = @ + hours]
    ELSE [x \in DOMAIN f \cup {k} |-> IF x = k THEN hours ELSE f[x]]

\* mutant: a fall of the count taken off total_increment
ObservedNetIncrement(r, count, now) ==
    LET hours == now - r.last_time
        acc == IF r.paused THEN r
               ELSE [r EXCEPT
                       !.total_hours = @ + hours,
                       !.cum_value = @ + hours * r.last_count,
                       !.total_increment = @ + (count - r.last_count),
                       !.total_decrement =
                           IF count > r.last_count THEN @ ELSE @ + (r.last_count - count),
                       !.hours_for_count = AddHours(@, r.last_count, hours)]
    IN [acc EXCEPT !.last_time = now, !.last_count = count]

\* mutant: the moves of the count are summed while paused too
ObservedMovesAlways(r, count, now) ==
    LET hours == now - r.last_time
        acc == IF r.paused THEN r
               ELSE [r EXCEPT
                       !.total_hours = @ + hours,
                       !.cum_value = @ + hours * r.last_count,
                       !.hours_for_count = AddHours(@, r.last_count, hours)]
    IN [acc EXCEPT !.total_increment =
                       IF count > r.last_count THEN @ + (count - r.last_count) ELSE @,
                   !.total_decrement =
                       IF count > r.last_count THEN @ ELSE @ + (r.last_count - count),
                   !.last_time = now, !.last_count = count]

\* mutant: the elapsed hours weighted by the new count
ObservedAtNewCount(r, count, now) ==
    LET hours == now - r.last_time
        acc == IF r.paused THEN r
               ELSE [r EXCEPT
                       !.total_hours = @ + hours,
                       !.cum_value = @ + hours * count,
                       !.total_increment =
                           IF count > r.last_count THEN @ + (count - r.last_count) ELSE @,
                       !.total_decrement =
                           IF count > r.last_count THEN @ ELSE @ + (r.last_count - count),
                       !.hours_for_count = AddHours(@, r.last_count, hours)]
    IN [acc EXCEPT !.last_time = now, !.last_count = count]

\* dict update self._history[clock_time] = count
Put(f, k, v) == [x \in DOMAIN f \cup {k} |-> IF x = k THEN v ELSE f[x]]

\* HourCounter.observe_count once the clock checks have passed
\* (timedelta2hours of whole hours is the number of hours)
Observed(r, count, now) ==
    LET hours == now - r.last_time
        acc == IF r.paused THEN r
               ELSE [r EXCEPT
                       !.total_hours = @ + hours,
                       !.cum_value = @ + hours * r.last_count,
                       !.total_increment =
                           IF count > r.last_count THEN @ + (count - r.last_count) ELSE @,
                       !.total_decrement =
                           IF count > r.last_count THEN @ ELSE @ + (r.last_count - count),
                       !.hours_for_count = AddHours(@, r.last_count, hours)]
    IN [acc EXCEPT !.history = IF r.keep_history THEN Put(@, now, count) ELSE @,
                   !.last_time = now, !.last_count = count]

\* observe_count raises ValueError when the clock is before last_time
ObserveRaises(r) == ClockTime(r.sandbox) < r.last_time

\* HourCounter.observe_count(count)
ObserveCountOf(r, count) ==
    IF ObserveRaises(r) THEN r ELSE Observed(r, count, ClockTime(r.sandbox))

\* HourCounter.pause()
PauseOf(r) ==
    IF r.paused \/ ObserveRaises(r) THEN r
    ELSE [Observed(r, r.last_count, ClockTime(r.sandbox)) EXCEPT
              !.paused = TRUE, !.ever_paused = TRUE]

\* HourCounter.resume(clock_time) with the sandbox clock as argument
ResumeOf(r) ==
    IF ~r.paused THEN r
    ELSE [r EXCEPT !.last_time = ClockTime(r.sandbox), !.paused = FALSE]

\* mutant: a warm-up that keeps the hours spent at each count
WarmupOfKeepsHours(r) ==
    [r EXCEPT !.initial_time = ClockTime(r.sandbox),
              !.last_time = ClockTime(r.sandbox),
              !.cum_value = 0, !.total_hours = 0,
              !.total_increment = 0, !.total_decrement = 0]

\* mutant: a warm-up that keeps total_hours
WarmupOfKeepsTotalHours(r) ==
    [r EXCEPT !.initial_time = ClockTime(r.sandbox),
              !.last_time = ClockTime(r.sandbox),
              !.cum_value = 0,
              !.total_increment = 0, !.total_decrement = 0,
              !.hours_for_count = <<>>]

\* mutant: a warm-up that starts the counter afresh
WarmupOfAfresh(r) == NewHourCounter(r.sandbox)

\* HourCounter.warmup
WarmupOf(r) ==
    [r EXCEPT !.initial_time = ClockTime(r.sandbox),
              !.last_time = ClockTime(r.sandbox),
              !.cum_value = 0, !.total_hours = 0,
              !.total_increment = 0, !.total_decrement = 0,
              !.hours_for_count = <<>>]

HoursOk(r) == r.total_hours <= MaxHours

\* the explicit clock_time argument of the counter's methods: omitted
\* (None) or an instant
NoTime == [kind |-> "none", v |-> 0]
Hours == DatetimeMin .. MaxClock
GivenTimes == {NoTime} \cup {[kind |-> "datetime", v |-> t] : t \in Hours}

\* mutant: any explicit clock_time is accepted
ClockMismatchNever(r, at) == FALSE

\* HourCounter._check_clock_time raises ValueError
ClockMismatch(r, at) == at.kind = "datetime" /\ at.v # ClockTime(r.sandbox)

\* observe_count(count, clock_time) raises: the argument check of line 389,
\* then the comparison with last_time of line 391
ObserveFails(r, at) == ClockMismatch(r, at) \/ ObserveRaises(r)

\* HourCounter.observe_count(count, clock_time)
ObserveCountAt(r, count, at) ==
    IF ObserveFails(r, at) THEN r ELSE Observed(r, count, ClockTime(r.sandbox))

\* HourCounter.observe_change(change, clock_time)
ObserveChangeAt(r, change, at) == ObserveCountAt(r, r.last_count + change, at)

\* pause(clock_time) raises: nothing is checked on a paused counter
PauseFails(r, at) == ~r.paused /\ ObserveFails(r, at)

\* mutant: a pause that does not bring the counter up to the clock first
PauseAtNoFlush(r, at) ==
    IF r.paused \/ ObserveFails(r, at) THEN r
    ELSE [r EXCEPT !.paused = TRUE, !.ever_paused = TRUE]

\* HourCounter.pause(clock_time)
PauseAt(r, at) ==
    IF r.paused \/ ObserveFails(r, at) THEN r
    ELSE [Observed(r, r.last_count, ClockTime(r.sandbox)) EXCEPT
              !.paused = TRUE, !.ever_paused = TRUE]

\* resume(clock_time) raises: nothing is checked on a counter not paused
ResumeFails(r, at) == r.paused /\ ClockMismatch(r, at)

\* HourCounter.resume(clock_time)
ResumeAt(r, at) ==
    IF ~r.paused \/ ClockMismatch(r, at) THEN r
    ELSE [r EXCEPT !.last_time = ClockTime(r.sandbox), !.paused = FALSE]

\* update_to_clock_time raises: observe_count is called only when last_time
\* differs from the clock
UpdateFails(r) == r.last_time # ClockTime(r.sandbox) /\ ObserveRaises(r)

\* mutant: a read that leaves the counter where it is
UpdateToClockTimeSkipped(r) == r

\* HourCounter.update_to_clock_time
UpdateToClockTime(r) ==
    IF r.last_time # ClockTime(r.sandbox) THEN ObserveCountOf(r, r.last_count) ELSE r

\* the read-side properties that call update_to_clock_time first, and the
\* method itself
Statistics ==
    {"increment_rate", "decrement_rate", "average_count", "average_duration",
     "working_time_ratio"}
Reads == Statistics \cup {"update_to_clock_time"}

\* the totals stay within the model bounds
TotalsOk(r) ==
    /\ r.total_hours <= MaxClock
    /\ r.total_increment <= MaxTurnover
    /\ r.total_decrement <= MaxTurnover

\* Sandbox.add_hour_counter (keep_history is not passed on to HourCounter)
AddHourCounter(s) ==
    /\ pc = "idle"
    /\ Len(hc) < MaxCounters
    /\ hc' = Append(hc, NewHourCounter(s))
    /\ hour_counters' = [hour_counters EXCEPT ![s] = Append(@, Len(hc) + 1)]
    /\ on_warmup' = [on_warmup EXCEPT ![s] = Append(@, HcWarmup(s, Len(hc) + 1))]
    /\ call' = NoCall
    /\ UNCHANGED <<parent, children, clock, fel, eventCount, scheduleCalls, isFirst, firstTime,
                   realTimeLast, event_count, thread_event, flags, threads, seed, rng, user, actions, invoked, pc, cur, demo>>

\* Sandbox.add_hour_counter(keep_history): HourCounter(self) is built
\* without the argument
AddHourCounterWith(s, keep_history) ==
    /\ pc = "idle"
    /\ Len(hc) < MaxCounters
    /\ hc' = Append(hc, [NewHourCounter(s) EXCEPT !.asked_history = keep_history])
    /\ hour_counters' = [hour_counters EXCEPT ![s] = Append(@, Len(hc) + 1)]
    /\ on_warmup' = [on_warmup EXCEPT ![s] = Append(@, HcWarmup(s, Len(hc) + 1))]
    /\ call' = NoCall
    /\ UNCHANGED <<parent, children, clock, fel, eventCount, scheduleCalls, isFirst, firstTime,
                   realTimeLast, event_count, thread_event, flags, threads, seed, rng, user, actions, invoked, pc, cur, demo>>

\* HourCounter(sandbox, keep_history=keep_history) built by the user: the
\* sandbox does not list it and its warm-up does not reset it
ConstructHourCounter(s, keep_history) ==
    /\ pc = "idle"
    /\ Len(hc) < MaxCounters
    /\ hc' = Append(hc, [NewHourCounter(s) EXCEPT !.keep_history = keep_history,
                                                  !.asked_history = keep_history])
    /\ call' = NoCall
    /\ UNCHANGED <<parent, children, clock, fel, eventCount, scheduleCalls, isFirst, firstTime,
                   realTimeLast, event_count, thread_event, flags, threads, seed, rng, user, actions, invoked, on_warmup, hour_counters, pc, cur, demo>>

\* the history property: None without keep_history, else the pairs
\* (hours since initial_time, count) of the observations
History(r) ==
    IF r.keep_history
    THEN {<<k - r.initial_time, r.history[k]>> : k \in DOMAIN r.history}
    ELSE None

HcCall(op, raised) ==
    [NoCall EXCEPT !.op = op, !.result = IF raised THEN "error" ELSE "none"]

\* hc.observe_count(c) called by the user between driver calls
ObserveCount(h, c) ==
    /\ pc = "idle"
    /\ h \in DOMAIN hc
    /\ HoursOk(ObserveCountOf(hc[h], c))
    /\ hc' = [hc EXCEPT ![h] = ObserveCountOf(@, c)]
    /\ pc' = "returned"
    /\ call' = HcCall("observe_count", ObserveRaises(hc[h]))
    /\ UNCHANGED <<parent, children, clock, fel, eventCount, scheduleCalls, isFirst, firstTime,
                   realTimeLast, event_count, thread_event, flags, threads, seed, rng, user, actions, invoked, on_warmup, hour_counters, cur, demo>>

\* hc.pause() called by the user between driver calls
Pause(h) ==
    /\ pc = "idle"
    /\ h \in DOMAIN hc
    /\ HoursOk(PauseOf(hc[h]))
    /\ hc' = [hc EXCEPT ![h] = PauseOf(@)]
    /\ pc' = "returned"
    /\ call' = HcCall("hc.pause", ~hc[h].paused /\ ObserveRaises(hc[h]))
    /\ UNCHANGED <<parent, children, clock, fel, eventCount, scheduleCalls, isFirst, firstTime,
                   realTimeLast, event_count, thread_event, flags, threads, seed, rng, user, actions, invoked, on_warmup, hour_counters, cur, demo>>

\* hc.resume(clock_time) called by the user between driver calls
Resume(h) ==
    /\ pc = "idle"
    /\ h \in DOMAIN hc
    /\ hc' = [hc EXCEPT ![h] = ResumeOf(@)]
    /\ pc' = "returned"
    /\ call' = HcCall("hc.resume", FALSE)
    /\ UNCHANGED <<parent, children, clock, fel, eventCount, scheduleCalls, isFirst, firstTime,
                   realTimeLast, event_count, thread_event, flags, threads, seed, rng, user, actions, invoked, on_warmup, hour_counters, cur, demo>>

\* a method of counter h called by the user between driver calls, which
\* leaves the counter as new
HcMethod(h, op, new, raised) ==
    /\ pc = "idle"
    /\ h \in DOMAIN hc
    /\ TotalsOk(new)
    /\ hc' = [hc EXCEPT ![h] = new]
    /\ pc' = "returned"
    /\ call' = HcCall(op, raised)
    /\ UNCHANGED <<parent, children, clock, fel, eventCount, scheduleCalls, isFirst, firstTime,
                   realTimeLast, event_count, thread_event, flags, threads, seed, rng, user, actions, invoked, on_warmup, hour_counters, cur, demo>>

\* hc.observe_count(c, at)
ObserveCountCall(h, c, at) ==
    HcMethod(h, "observe_count", ObserveCountAt(hc[h], c, at), ObserveFails(hc[h], at))

\* hc.observe_change(d, at)
ObserveChangeCall(h, d, at) ==
    HcMethod(h, "observe_change", ObserveChangeAt(hc[h], d, at), ObserveFails(hc[h], at))

\* hc.pause(at)
PauseCall(h, at) ==
    HcMethod(h, "hc.pause", PauseAt(hc[h], at), PauseFails(hc[h], at))

\* hc.resume(at)
ResumeCall(h, at) ==
    HcMethod(h, "hc.resume", ResumeAt(hc[h], at), ResumeFails(hc[h], at))

\* hc.update_to_clock_time(), or a read of one of the derived statistics
ReadCall(h, stat) ==
    HcMethod(h, IF stat \in Statistics THEN "statistic" ELSE stat,
             UpdateToClockTime(hc[h]), UpdateFails(hc[h]))

\* head.invoke(): the action calls observe_count(c) on counter h and returns
InvokeObserve(h, c) ==
    /\ pc = "invoking"
    /\ h \in DOMAIN hc
    /\ HoursOk(ObserveCountOf(hc[h], c))
    /\ hc' = [hc EXCEPT ![h] = ObserveCountOf(@, c)]
    /\ IF ObserveRaises(hc[h]) THEN RaiseOut ELSE AfterInvoke
    /\ UNCHANGED <<parent, children, clock, fel, eventCount, scheduleCalls, isFirst, firstTime,
                   realTimeLast, event_count, thread_event, flags, threads, seed, rng, user, actions, invoked, on_warmup, hour_counters, demo>>

RECURSIVE InvokeAll(_, _, _)
\* Action.invoke over the subactions of an on_warmup Action, from the i-th
InvokeAll(acts, i, counters) ==
    IF i > Len(acts) THEN counters
    ELSE InvokeAll(acts, i + 1,
                   IF acts[i].kind = "hc.warmup"
                   THEN [counters EXCEPT ![acts[i].id] = WarmupOf(@)]
                   ELSE counters)

\* warmup_until after run has returned: self._on_warmup.invoke(); return result
OnWarmupInvoke ==
    /\ pc = "on_warmup"
    /\ hc' = InvokeAll(on_warmup[call.at], 1, hc)
    /\ pc' = "returned"
    /\ UNCHANGED <<parent, children, clock, fel, eventCount, scheduleCalls, isFirst, firstTime,
                   realTimeLast, event_count, thread_event, flags, threads, seed, rng, user, actions, invoked, on_warmup, hour_counters, call, cur, demo>>

\* the call's result is handed to the caller; the driver thread is free for
\* the next call
Return ==
    /\ pc = "returned"
    /\ pc' = "idle"
    /\ call' = NoCall
    /\ UNCHANGED <<parent, children, clock, fel, eventCount, scheduleCalls, isFirst, firstTime,
                   realTimeLast, event_count, thread_event, flags, threads, seed, rng, user, actions, invoked, on_warmup, hour_counters, hc, cur, demo>>

\* ------------------------------------------- HourCounter, float hours
\* timedelta2hours returns a float, and the sums of the counter are float
\* sums.  Where the clock counts whole hours every one of them is exact;
\* here a clock step is TickSeconds long and the floats keep their rounding
\* (to nearest, ties to even) with a significand of Precision bits in place
\* of the 53 of a double.  A float is held as a whole number of
\* 2^-FractionBits.
TickSeconds == 600
Precision == 6
FractionBits == 10

RECURSIVE Ulp(_, _, _)
\* the spacing of the floats around num / den
Ulp(num, den, u) == IF num >= 2^Precision * u * den THEN Ulp(num, den, 2 * u) ELSE u

\* num / den rounded to a float
Rounded(num, den) ==
    LET n == IF num < 0 THEN 0 - num ELSE num
        u == Ulp(n, den, 1)
        f == n \div (den * u)
        rem == n - f * den * u
        up == 2 * rem > den * u \/ (2 * rem = den * u /\ f % 2 = 1)
        m == (IF up THEN f + 1 ELSE f) * u
    IN IF num < 0 THEN 0 - m ELSE m

FAdd(a, b) == Rounded(a + b, 1)
FSub(a, b) == Rounded(a - b, 1)
FMul(a, n) == Rounded(a * n, 1)
FDiv(a, n) == Rounded(a, n)

\* timedelta2hours: timedelta.total_seconds() / float(3600)
Timedelta2Hours(d) == Rounded(d * TickSeconds * 2^FractionBits, 3600)

\* observe_count on a counter that passed its checks, lines 395-418
ObservedFloat(r, count, now) ==
    LET hours == Timedelta2Hours(now - r.last_time)
        acc == IF r.paused THEN r
               ELSE [r EXCEPT
                       !.total_hours = FAdd(@, hours),
                       !.cum_value = FAdd(@, FMul(hours, r.last_count)),
                       !.total_increment =
                           IF count > r.last_count THEN @ + (count - r.last_count) ELSE @,
                       !.total_decrement =
                           IF count > r.last_count THEN @ ELSE @ + (r.last_count - count),
                       !.hours_for_count =
                           Put(@, r.last_count,
                               FAdd(IF r.last_count \in DOMAIN @ THEN @[r.last_count] ELSE 0,
                                    hours))]
    IN [acc EXCEPT !.history = IF r.keep_history THEN Put(@, now, count) ELSE @,
                   !.last_time = now, !.last_count = count]

\* hc.observe_count(c) where the clock steps are TickSeconds long
ObserveCountFloat(h, c) ==
    LET r == hc[h]
        new == IF ObserveRaises(r) THEN r ELSE ObservedFloat(r, c, ClockTime(r.sandbox))
    IN /\ pc = "idle"
       /\ h \in DOMAIN hc
       /\ new.total_increment <= MaxTurnover /\ new.total_decrement <= MaxTurnover
       /\ hc' = [hc EXCEPT ![h] = new]
       /\ pc' = "returned"
       /\ call' = HcCall("observe_count", ObserveRaises(r))
       /\ UNCHANGED <<parent, children, clock, fel, eventCount, scheduleCalls, isFirst,
                      firstTime, realTimeLast, event_count, thread_event, flags, threads, seed,
                      rng, user, actions, invoked, on_warmup, hour_counters, cur, demo>>

RECURSIVE Ascending(_)
\* _sort_hours_for_count: the keys in ascending order
Ascending(S) ==
    IF S = {} THEN <<>>
    ELSE LET m == CHOOSE x \in S : \A y \in S : x <= y
         IN <<m>> \o Ascending(S \ {m})

RECURSIVE FSum(_, _, _, _)
\* sum(self._hours_for_count.values()): from 0, in the order of the dict
FSum(f, keys, i, acc) ==
    IF i > Len(keys) THEN acc ELSE FSum(f, keys, i + 1, FAdd(acc, f[keys[i]]))

RECURSIVE PercentileFrom(_, _, _, _)
\* the loop of percentile, lines 492-496: float('inf') when it runs out
PercentileFrom(f, keys, i, threshold) ==
    IF i > Len(keys) THEN [inf |-> TRUE, count |-> 0]
    ELSE LET left == FSub(threshold, f[keys[i]])
         IN IF left <= 0 THEN [inf |-> FALSE, count |-> keys[i]]
            ELSE PercentileFrom(f, keys, i + 1, left)

\* HourCounter.percentile(ratio)
Percentile(r, ratio) ==
    LET keys == Ascending(DOMAIN r.hours_for_count)
        threshold == FDiv(FMul(FSum(r.hours_for_count, keys, 1, 0), ratio), 100)
    IN PercentileFrom(r.hours_for_count, keys, 1, threshold)

Ratios == {0, 50, 100}

\* hc.percentile(ratio): n is the count returned, unless the result is inf
PercentileCall(h, ratio) ==
    LET got == Percentile(hc[h], ratio)
    IN /\ pc = "idle"
       /\ h \in DOMAIN hc
       /\ pc' = "returned"
       /\ call' = [NoCall EXCEPT !.op = "percentile", !.n = got.count,
                                 !.result = IF got.inf THEN "inf" ELSE "count"]
       /\ UNCHANGED <<parent, children, clock, fel, eventCount, scheduleCalls, isFirst,
                      firstTime, realTimeLast, event_count, thread_event, flags, threads, seed,
                      rng, user, actions, invoked, on_warmup, hour_counters, hc, cur, demo>>

\* round(x, 2) of a float: the float nearest to the nearest hundredth
Round2(x) ==
    LET n == IF x < 0 THEN 0 - x ELSE x
        unit == 2^FractionBits
        k == (100 * n) \div unit
        rem == 100 * n - k * unit
        up == 2 * rem > unit \/ (2 * rem = unit /\ k % 2 = 1)
        m == Rounded((IF up THEN k + 1 ELSE k) * unit, 100)
    IN IF x < 0 THEN 0 - m ELSE m

\* mutant: a count on a bucket boundary left in the bucket it opens
CountLbFloor(count, count_interval) == (count \div count_interval) * count_interval

\* lines 518-520 of histogram: the low bound of the bucket of a count
CountLb(count, count_interval) ==
    LET count_lb == (count \div count_interval) * count_interval
    IN IF count_lb > 0 /\ count_lb = count THEN count_lb - count_interval ELSE count_lb

\* lines 521-523: the hours added to the entry of lb2hours, a new entry
\* going to the end of the dict
AddToLb(lb2hours, lb, hours) ==
    IF \E j \in 1 .. Len(lb2hours) : lb2hours[j].lb = lb
    THEN [j \in 1 .. Len(lb2hours) |->
              IF lb2hours[j].lb = lb
              THEN [lb2hours[j] EXCEPT !.hours = FAdd(@, hours)]
              ELSE lb2hours[j]]
    ELSE Append(lb2hours, [lb |-> lb, hours |-> FAdd(0, hours)])

RECURSIVE Lb2Hours(_, _, _, _, _)
\* the first loop of histogram, lines 517-523, from the i-th count
Lb2Hours(f, keys, i, count_interval, lb2hours) ==
    IF i > Len(keys) THEN lb2hours
    ELSE Lb2Hours(f, keys, i + 1, count_interval,
                  AddToLb(lb2hours, CountLb(keys[i], count_interval), f[keys[i]]))

\* mutant: the hours of the first bucket taken for the sum of all
HoursSumOfFirst(lb2hours, i, acc) ==
    IF Len(lb2hours) = 0 THEN acc ELSE FAdd(acc, lb2hours[1].hours)

RECURSIVE HoursSum(_, _, _)
\* sum(lb2hours.values())
HoursSum(lb2hours, i, acc) ==
    IF i > Len(lb2hours) THEN acc ELSE HoursSum(lb2hours, i + 1, FAdd(acc, lb2hours[i].hours))

RECURSIVE HistogramFrom(_, _, _, _, _)
\* the second loop of histogram, lines 527-538, from the i-th bucket
HistogramFrom(lb2hours, i, hours_sum, cum_hours, histogram_) ==
    IF i > Len(lb2hours) THEN histogram_
    ELSE LET hours == lb2hours[i].hours
             cum == FAdd(cum_hours, hours)
             row == [lb |-> lb2hours[i].lb,
                     hours |-> Round2(hours),
                     hour_ratio |-> Round2(Rounded(hours * 2^FractionBits, hours_sum)),
                     cum_hour_ratio |-> Round2(Rounded(cum * 2^FractionBits, hours_sum))]
         IN HistogramFrom(lb2hours, i + 1, hours_sum, cum, Append(histogram_, row))

\* HourCounter.histogram(count_interval): the dict as the list of its
\* entries, or ZeroDivisionError when the hours of the buckets sum to 0
Histogram(r, count_interval) ==
    LET f == r.hours_for_count
        lb2hours == Lb2Hours(f, Ascending(DOMAIN f), 1, count_interval, <<>>)
        hours_sum == HoursSum(lb2hours, 1, 0)
    IN IF DOMAIN f = {} THEN [raised |-> FALSE, histogram_ |-> <<>>]
       ELSE IF hours_sum = 0 THEN [raised |-> TRUE, histogram_ |-> <<>>]
       ELSE [raised |-> FALSE,
             histogram_ |-> HistogramFrom(lb2hours, 1, hours_sum, 0, <<>>)]

\* the widths histogram is asked for
Widths == 1 .. MaxLevel

\* hc.histogram(count_interval): n is the number of buckets returned
HistogramCall(h, count_interval) ==
    LET got == Histogram(hc[h], count_interval)
    IN /\ pc = "idle"
       /\ h \in DOMAIN hc
       /\ pc' = "returned"
       /\ call' = [NoCall EXCEPT !.op = "histogram", !.n = Len(got.histogram_),
                                 !.result = IF got.raised THEN "error" ELSE "none"]
       /\ UNCHANGED <<parent, children, clock, fel, eventCount, scheduleCalls, isFirst,
                      firstTime, realTimeLast, event_count, thread_event, flags, threads, seed,
                      rng, user, actions, invoked, on_warmup, hour_counters, hc, cur, demo>>

\* ------------------------------------------------------------- Action

\* what is handed to Action.add: functions f and g with `required`
\* parameters (none of them with a default), functools.partial objects over
\* f with `args` bound positional and `keywords` bound keyword arguments, a
\* callable object that has no __name__, and a value that is not callable
Functions ==
    {[kind |-> "function", name |-> n, required |-> r, args |-> 0, keywords |-> 0] :
        n \in {"f", "g"}, r \in 0 .. MaxArity}
Partials ==
    {[kind |-> "partial", name |-> "f", required |-> r, args |-> b[1], keywords |-> b[2]] :
        r \in 0 .. MaxArity, b \in {<<1, 0>>, <<0, 1>>, <<1, 1>>}}
Unnamed == [kind |-> "object", name |-> "o", required |-> 0, args |-> 0, keywords |-> 0]
NotCallable == [kind |-> "value", name |-> "v", required |-> 0, args |-> 0, keywords |-> 0]
Callables == Functions \cup Partials \cup {Unnamed, NotCallable}

\* Action.__init__(*args, **kwargs): _argcount = len(args) + len(kwargs);
\* checked (history) says that no add has gone unchecked
NewActionObject(n) == [argcount |-> n, subactions |-> <<>>, checked |-> TRUE]

\* _check_subaction, lines 118-128: the parameters without a default, less
\* the arguments a partial has bound
Argcount(c) ==
    (IF c.kind = "partial" THEN 0 - (c.args + c.keywords) ELSE 0) + c.required

\* mutant: the arguments bound by a partial are not taken off
CheckRaisesUnbound(argcount, c) ==
    \/ c.kind = "value"
    \/ c.kind = "object"
    \/ c.required # argcount

\* _check_subaction raises TypeError: not callable (line 116), no __name__
\* (line 123), or an argument count other than the Action's (line 129)
CheckRaises(argcount, c) ==
    \/ c.kind = "value"
    \/ c.kind = "object"
    \/ Argcount(c) # argcount

RECURSIVE AddEach(_, _, _, _)
\* the loop of Action.add over _add_subaction, from the i-th subaction: a
\* failed check leaves the loop with the earlier subactions appended
AddEach(a, subs, i, check) ==
    IF i > Len(subs) THEN [action |-> a, raised |-> FALSE]
    ELSE IF check /\ CheckRaises(a.argcount, subs[i]) THEN [action |-> a, raised |-> TRUE]
    ELSE AddEach([a EXCEPT !.subactions = Append(@, subs[i]), !.checked = @ /\ check],
                 subs, i + 1, check)

\* a call on an Action object made by the user: n is the Action
ActionCall(op, a, raised) ==
    [NoCall EXCEPT !.op = op, !.n = a, !.result = IF raised THEN "error" ELSE "none"]

\* Action(*args): a new Action object of n declared arguments
NewAction(n) ==
    /\ pc = "idle"
    /\ Len(actions) < MaxActions
    /\ actions' = Append(actions, NewActionObject(n))
    /\ pc' = "returned"
    /\ call' = ActionCall("Action", Len(actions) + 1, FALSE)
    /\ UNCHANGED <<parent, children, clock, fel, eventCount, scheduleCalls, isFirst, firstTime,
                   realTimeLast, event_count, thread_event, flags, threads, seed, rng, user,
                   invoked, on_warmup, hour_counters, hc, cur, demo>>

\* Action.add(action, check) on Action a, where subs are the subactions the
\* argument stands for
ActionAdd(a, subs, check) ==
    LET done == AddEach(actions[a], subs, 1, check)
    IN /\ pc = "idle"
       /\ a \in DOMAIN actions
       /\ Len(done.action.subactions) <= MaxSubactions
       /\ actions' = [actions EXCEPT ![a] = done.action]
       /\ pc' = "returned"
       /\ call' = ActionCall("add", a, done.raised)
       /\ UNCHANGED <<parent, children, clock, fel, eventCount, scheduleCalls, isFirst,
                      firstTime, realTimeLast, event_count, thread_event, flags, threads, seed,
                      rng, user, invoked, on_warmup, hour_counters, hc, cur, demo>>

\* a.add(c, check) with one object that is no Action, dict or iterable
AddCallable(a, c, check) == ActionAdd(a, <<c>>, check)

\* a.add(b, check) with an Action b: subactions = b.subactions
AddAction(a, b, check) ==
    /\ b \in DOMAIN actions
    /\ ActionAdd(a, actions[b].subactions, check)

\* a.add([c, d], check) with an iterable of two objects
AddList(a, c, d, check) == ActionAdd(a, <<c, d>>, check)

\* a + b with an Action b: new_action = Action(*a._args, **a._kwargs);
\* new_action.add(a, False); new_action.add(b); the sum is a new object
\* unless the second add raises
ActionSum(a, b) ==
    /\ pc = "idle"
    /\ a \in DOMAIN actions /\ b \in DOMAIN actions
    /\ Len(actions) < MaxActions
    /\ LET copy == AddEach(NewActionObject(actions[a].argcount), actions[a].subactions,
                           1, FALSE)
           done == AddEach(copy.action, actions[b].subactions, 1, TRUE)
       IN /\ Len(done.action.subactions) <= MaxSubactions
          /\ actions' = IF done.raised THEN actions ELSE Append(actions, done.action)
          /\ call' = ActionCall("sum", IF done.raised THEN 0 ELSE Len(actions) + 1,
                                done.raised)
    /\ pc' = "returned"
    /\ UNCHANGED <<parent, children, clock, fel, eventCount, scheduleCalls, isFirst, firstTime,
                   realTimeLast, event_count, thread_event, flags, threads, seed, rng, user,
                   invoked, on_warmup, hour_counters, hc, cur, demo>>

RECURSIVE InvokeEachLastFirst(_, _, _, _)
\* mutant: the subactions called from the last to the first
InvokeEachLastFirst(a, i, x, log) ==
    IF i > Len(a.subactions) THEN [log |-> log, raised |-> FALSE]
    ELSE LET c == a.subactions[i]
         IN IF c.kind = "value" \/ Argcount(c) # a.argcount
            THEN [log |-> log, raised |-> TRUE]
            ELSE InvokeEachLastFirst(a, i + 1, x, <<<<c, x>>>> \o log)

RECURSIVE InvokeEach(_, _, _, _)
\* the loop of Action.invoke from the i-th subaction, called with as many
\* arguments as the Action declares: a subaction that is not callable, or
\* that takes another number of arguments, raises TypeError out of the loop
InvokeEach(a, i, x, log) ==
    IF i > Len(a.subactions) THEN [log |-> log, raised |-> FALSE]
    ELSE LET c == a.subactions[i]
         IN IF c.kind = "value" \/ Argcount(c) # a.argcount
            THEN [log |-> log, raised |-> TRUE]
            ELSE InvokeEach(a, i + 1, x, Append(log, <<c, x>>))

\* a.invoke(x, ...)
ActionInvoke(a, x) ==
    LET done == InvokeEach(actions[a], 1, x, <<>>)
    IN /\ pc = "idle"
       /\ a \in DOMAIN actions
       /\ invoked' = done.log
       /\ pc' = "returned"
       /\ call' = ActionCall("invoke", a, done.raised)
       /\ UNCHANGED <<parent, children, clock, fel, eventCount, scheduleCalls, isFirst,
                      firstTime, realTimeLast, event_count, thread_event, flags, threads, seed,
                      rng, user, actions, on_warmup, hour_counters, hc, cur, demo>>

\* a.clear()
ActionClear(a) ==
    /\ pc = "idle"
    /\ a \in DOMAIN actions
    /\ actions' = [actions EXCEPT ![a].subactions = <<>>, ![a].checked = TRUE]
    /\ pc' = "returned"
    /\ call' = ActionCall("clear", a, FALSE)
    /\ UNCHANGED <<parent, children, clock, fel, eventCount, scheduleCalls, isFirst, firstTime,
                   realTimeLast, event_count, thread_event, flags, threads, seed, rng, user,
                   invoked, on_warmup, hour_counters, hc, cur, demo>>

\* ------------------------------------------ Sandbox.seed, replayed runs

\* mutant: the seed stored without seeding the streams
SeedSetterStoresOnly(s, v) ==
    /\ seed' = [seed EXCEPT ![s] = v]
    /\ rng' = rng

\* Sandbox.seed (setter): self._seed = value; random.seed(value);
\* np.random.seed(value)
SeedSetter(s, v) ==
    /\ seed' = [seed EXCEPT ![s] = v]
    /\ rng' = Seeded(v)

\* mutant: the constructor stores the seed in self._seed itself
SandboxInitStoresSeed(s, v) ==
    /\ seed' = [seed EXCEPT ![s] = v]
    /\ rng' = rng

\* Sandbox.__init__(seed=v) of a sandbox that has no parent, children,
\* events or clock yet: of what the model follows, line 133 (self.seed =
\* seed) is what changes
SandboxInit(s, v) == SeedSetter(s, v)

\* sb.seed = v, called by the user
SeedCall(s, v) ==
    /\ pc = "idle"
    /\ SeedSetter(s, v)
    /\ call' = [NoCall EXCEPT !.op = "seed", !.at = s]
    /\ pc' = "returned"
    /\ UNCHANGED <<parent, children, clock, fel, eventCount, scheduleCalls, isFirst, firstTime,
                   realTimeLast, event_count, thread_event, flags, threads, user, actions,
                   invoked, on_warmup, hour_counters, hc, cur, demo>>

\* no tree has been built and nothing scheduled
Unbuilt ==
    /\ \A s \in SB : parent[s] = None /\ children[s] = <<>> /\ fel[s] = <<>>
    /\ eventCount = 0

\* MMcQueuePull(..., seed=v), line 10: super().__init__(seed=seed); R is
\* the model, terminate holds v and n the line the constructor is at
MMcQueuePullInit(v) ==
    /\ pc = "idle"
    /\ Unbuilt
    /\ SandboxInit("R", v)
    /\ call' = [NoCall EXCEPT !.op = "MMcQueuePull", !.at = "R", !.terminate = v, !.n = 14,
                              !.result = "running"]
    /\ pc' = "building"
    /\ UNCHANGED <<parent, children, clock, fel, eventCount, scheduleCalls, isFirst, firstTime,
                   realTimeLast, event_count, thread_event, flags, threads, user, actions,
                   invoked, on_warmup, hour_counters, hc, cur, demo>>

\* the event that a schedule call is about to create gets its action
Handled(d, name, load) ==
    [d EXCEPT !.handlers = Append(@, [name |-> name, load |-> load])]

\* line 14: self.generator = self.add_child(Generator(...)); C is the
\* Generator, whose constructor calls super().__init__() and
\* self.schedule(self.generate)
BuildGenerator ==
    /\ pc = "building" /\ call.n = 14
    /\ SandboxInit("C", DefaultSeed)
    /\ DoSchedule("C", [kind |-> "none", v |-> 0])
    /\ demo' = Handled(demo, "generate", 0)
    /\ children' = [children EXCEPT !["R"] = Append(@, "C")]
    /\ parent' = [parent EXCEPT !["C"] = "R"]
    /\ on_warmup' = [on_warmup EXCEPT !["R"] = @ \o on_warmup["C"]]
    /\ call' = [call EXCEPT !.n = 15]
    /\ UNCHANGED <<clock, realTimeLast, event_count, thread_event, flags, threads, user,
                   actions, invoked, hour_counters, hc, pc, cur>>

\* lines 15-16: the Queue and the Server are constructed with
\* super().__init__() and added; G stands for the two of them
BuildServer ==
    /\ pc = "building" /\ call.n = 15
    /\ SandboxInit("G", DefaultSeed)
    /\ children' = [children EXCEPT !["R"] = Append(@, "G")]
    /\ parent' = [parent EXCEPT !["G"] = "R"]
    /\ on_warmup' = [on_warmup EXCEPT !["R"] = @ \o on_warmup["G"]]
    /\ call' = [call EXCEPT !.result = "none"]
    /\ pc' = "returned"
    /\ UNCHANGED <<clock, fel, eventCount, scheduleCalls, isFirst, firstTime, realTimeLast,
                   event_count, thread_event, flags, threads, user, actions, invoked,
                   hour_counters, hc, cur, demo>>

\* list.remove(x): the first occurrence of x taken out
ListRemove(q, x) ==
    LET k == CHOOSE i \in 1 .. Len(q) : q[i] = x /\ \A j \in 1 .. i - 1 : q[j] # x
    IN SubSeq(q, 1, k - 1) \o SubSeq(q, k + 1, Len(q))

\* the action and the load of the event being invoked
Handler == demo.handlers[cur.index]

\* what the handlers leave alone
DemoFrame ==
    UNCHANGED <<parent, children, clock, realTimeLast, event_count, thread_event, flags,
                threads, seed, user, actions, invoked, on_warmup, hour_counters, hc>>

\* a handler that schedules nothing
NoSchedule == UNCHANGED <<fel, eventCount, scheduleCalls, isFirst, firstTime>>

\* timedelta(hours=round(random.expovariate(rate), 2)), drawn from the
\* process-wide stream
DrawnDelay == [kind |-> "timedelta", v |-> Drawn(rng.py)]

\* Queue.enqueue(load)
Enqueue(d, load) ==
    [d EXCEPT !.number_waiting = @ + 1, !.queue = Append(@, load)]

\* Queue.dequeue(load)
Dequeue(d, load) ==
    [d EXCEPT !.number_waiting = @ - 1, !.queue = ListRemove(@, load)]

\* Server.request_to_start(load), lines 20-21, before it schedules
RequestToStart(d, load) ==
    [d EXCEPT !.number_pending = @ + 1, !.pending_list = Append(@, load)]

\* finish as the claim has it: the load taken out of the in-service count
FinishedLowers(d, load) ==
    [d EXCEPT !.number_in_service = @ - 1, !.service_list = ListRemove(@, load)]

\* Server.finish(load), lines 42-43: number_in_service.observe_change(1);
\* service_list.remove(load)
Finished(d, load) ==
    [d EXCEPT !.number_in_service = @ + 1, !.service_list = ListRemove(@, load)]

\* Server.start(load): lines 30-33, the finish event scheduled at line 38
\* and on_start.invoke(load), which is Queue.dequeue(load)
Started(d, load) ==
    Dequeue(Handled([d EXCEPT !.number_pending = @ - 1,
                              !.pending_list = ListRemove(@, load),
                              !.number_in_service = @ + 1,
                              !.service_list = Append(@, load),
                              !.draws = @ + 1],
                    "finish", load),
            load)

\* Generator.generate, lines 18-22: with a count above 0 a load is created
\* and on_generate.invoke(load) calls Queue.enqueue and
\* Server.request_to_start, which schedules start when a server is free
GenerateLoad ==
    LET load == demo.entities + 1
        asked == RequestToStart(Enqueue([demo EXCEPT !.entities = load], load), load)
    IN /\ pc = "invoking"
       /\ Handler.name = "generate"
       /\ IF demo.count > 0
          THEN IF asked.number_in_service < Capacity
               THEN /\ eventCount < MaxDemoEvents
                    /\ DoSchedule("G", [kind |-> "timedelta", v |-> 0])
                    /\ demo' = Handled(asked, "start", load)
               ELSE NoSchedule /\ demo' = asked
          ELSE NoSchedule /\ demo' = demo
       /\ pc' = "generate"
       /\ UNCHANGED <<rng, call, cur>>
       /\ DemoFrame

\* Generator.generate, lines 23-24: count.observe_change(1) and the next
\* generate scheduled after a drawn delay
GenerateNext ==
    /\ pc = "generate"
    /\ eventCount < MaxDemoEvents
    /\ DoSchedule("C", DrawnDelay)
    /\ rng' = [rng EXCEPT !.py = Stepped(@)]
    /\ demo' = Handled([demo EXCEPT !.count = @ + 1, !.draws = @ + 1], "generate", 0)
    /\ AfterInvoke
    /\ DemoFrame

\* Server.start(load), invoked as the action of an event
InvokeStart ==
    /\ pc = "invoking"
    /\ Handler.name = "start"
    /\ eventCount < MaxDemoEvents
    /\ DoSchedule("G", DrawnDelay)
    /\ rng' = [rng EXCEPT !.py = Stepped(@)]
    /\ demo' = Started(demo, Handler.load)
    /\ AfterInvoke
    /\ DemoFrame

\* Server.finish(load), invoked as the action of an event: with a load
\* pending it calls self.start(self.pending_list[0])
InvokeFinish ==
    LET done == Finished(demo, Handler.load)
    IN /\ pc = "invoking"
       /\ Handler.name = "finish"
       /\ IF done.number_pending > 0
          THEN /\ eventCount < MaxDemoEvents
               /\ DoSchedule("G", DrawnDelay)
               /\ rng' = [rng EXCEPT !.py = Stepped(@)]
               /\ demo' = Started(done, done.pending_list[1])
          ELSE NoSchedule /\ rng' = rng /\ demo' = done
       /\ AfterInvoke
       /\ DemoFrame

\* Sandbox.head_event_time: None without a head event, else its
\* scheduled_time
HeadEventTime(s) ==
    LET head == HeadEvent(s)
    IN [none |-> head = NoEvent,
        v |-> IF head = NoEvent THEN DatetimeMin ELSE head.scheduled_time]

\* the statements of a calling program: sb.seed = v;
\* sb.schedule(f, timedelta(random draw)); sb.run_once();
\* sb.main_hc.observe_count(random draw)
Statements ==
    {[op |-> "seed", v |-> v] : v \in Seeds}
        \cup {[op |-> o, v |-> 0] : o \in {"schedule_drawn", "run_once", "observe_drawn"}}

\* the program is written, one statement after the other, before it is run
Write(st) ==
    /\ pc = "idle"
    /\ user.pos = NoUser.pos
    /\ Len(user.script) < MaxScript
    /\ user' = [user EXCEPT !.script = Append(@, st)]
    /\ UNCHANGED <<parent, children, clock, fel, eventCount, scheduleCalls, isFirst, firstTime,
                   realTimeLast, event_count, thread_event, flags, threads, seed, rng, actions,
                   invoked, on_warmup, hour_counters, hc, pc, call, cur, demo>>

\* run e is at statement op: it has read back the outcome of the statement
\* before, and the second run starts when the first has ended
Turn(e, op) ==
    /\ pc = "idle"
    /\ user.pos[e] < Len(user.script)
    /\ Len(user.seen[e]) = user.pos[e]
    /\ e = Runs[2] => /\ user.pos[Runs[1]] = Len(user.script)
                      /\ Len(user.seen[Runs[1]]) = Len(user.script)
    /\ user.script[user.pos[e] + 1].op = op

Played(e) == user' = [user EXCEPT !.pos[e] = @ + 1]

\* sb.seed = v
PlaySeed(e) ==
    /\ Turn(e, "seed")
    /\ SeedSetter(e, user.script[user.pos[e] + 1].v)
    /\ Played(e)
    /\ call' = [NoCall EXCEPT !.op = "seed", !.at = e]
    /\ pc' = "returned"
    /\ UNCHANGED <<parent, children, clock, fel, eventCount, scheduleCalls, isFirst, firstTime,
                   realTimeLast, event_count, thread_event, flags, threads, actions, invoked,
                   on_warmup, hour_counters, hc, cur, demo>>

\* sb.schedule(f, dt.timedelta(hours=random.randint(0, 1)))
PlayScheduleDrawn(e) ==
    /\ Turn(e, "schedule_drawn")
    /\ DoSchedule(e, [kind |-> "timedelta", v |-> Drawn(rng.py)])
    /\ rng' = [rng EXCEPT !.py = Stepped(@)]
    /\ Played(e)
    /\ call' = [NoCall EXCEPT !.op = "schedule", !.at = e]
    /\ pc' = "returned"
    /\ UNCHANGED <<parent, children, clock, realTimeLast, event_count, thread_event, flags,
                   threads, seed, actions, invoked, on_warmup, hour_counters, hc, cur, demo>>

\* sb.run_once()
PlayRunOnce(e) ==
    LET at == Delegate(e)
        head == HeadEvent(at)
        f == Frame("run_once", e)
    IN /\ Turn(e, "run_once")
       /\ IF head = NoEvent
          THEN /\ call' = [f EXCEPT !.result = "false"]
               /\ pc' = "returned"
               /\ UNCHANGED <<fel, clock, cur>>
          ELSE /\ call' = f
               /\ RunOnceFire(at, head)
       /\ Played(e)
       /\ UNCHANGED <<parent, children, eventCount, scheduleCalls, isFirst, firstTime,
                      realTimeLast, event_count, thread_event, flags, threads, seed, rng, actions,
                      invoked, on_warmup, hour_counters, hc, demo>>

\* sb.main_hc.observe_count(random.randint(0, 1))
PlayObserveDrawn(e) ==
    LET h == MainHc(e)
    IN /\ Turn(e, "observe_drawn")
       /\ hc' = [hc EXCEPT ![h] = ObserveCountAt(@, Drawn(rng.py), NoTime)]
       /\ rng' = [rng EXCEPT !.py = Stepped(@)]
       /\ Played(e)
       /\ call' = HcCall("observe_count", ObserveFails(hc[h], NoTime))
       /\ pc' = "returned"
       /\ UNCHANGED <<parent, children, clock, fel, eventCount, scheduleCalls, isFirst,
                      firstTime, realTimeLast, event_count, thread_event, flags, threads, seed,
                      actions, invoked, on_warmup, hour_counters, cur, demo>>

\* the program reads sb.head_event_time and sb.main_hc.last_count back
\* after each statement
Look(e) ==
    /\ pc = "idle"
    /\ Len(user.seen[e]) < user.pos[e]
    /\ user' = [user EXCEPT
                  !.seen[e] = Append(@, <<HeadEventTime(e), hc[MainHc(e)].last_count>>)]
    /\ UNCHANGED <<parent, children, clock, fel, eventCount, scheduleCalls, isFirst, firstTime,
                   realTimeLast, event_count, thread_event, flags, threads, seed, rng, actions,
                   invoked, on_warmup, hour_counters, hc, pc, call, cur, demo>>

\* ------------------------------------------- Sandbox.pause / resume
\* what the driver thread and the other threads leave alone
kernel == <<parent, children, clock, fel, eventCount, scheduleCalls, isFirst, firstTime,
            realTimeLast, event_count, seed, rng, user, actions, invoked,
            on_warmup, hour_counters, hc, pc, call, cur, demo>>

\* the threading.Event objects created so far are 1 .. GateCount
GateCount ==
    LET used == flags \cup {thread_event[s] : s \in SB} \cup {threads[th].gate : th \in Threads}
    IN CHOOSE n \in used \cup {NoGate} : \A g \in used : g <= n

ThreadAt(th, pos) == threads[th].pc = pos

ThreadGoes(th, r) == threads' = [threads EXCEPT ![th] = r]

ThreadEnds(th, result) ==
    ThreadGoes(th, [threads[th] EXCEPT !.pc = "returned", !.result = result])

\* thread th calls pause() on sandbox s: the call is handed up to the root
\* (lines 520-521)
SandboxPause(th, s) ==
    /\ ThreadAt(th, "idle")
    /\ ThreadGoes(th, [NoThreadCall EXCEPT !.op = "pause", !.at = Delegate(s), !.pc = "test"])
    /\ UNCHANGED <<thread_event, flags>>
    /\ UNCHANGED kernel

\* line 522: if self._thread_event is None (else line 526: return False)
PauseTest(th) ==
    /\ ThreadAt(th, "test") /\ threads[th].op = "pause"
    /\ IF thread_event[threads[th].at] = NoGate
       THEN ThreadGoes(th, [threads[th] EXCEPT !.pc = "create"])
       ELSE ThreadEnds(th, "false")
    /\ UNCHANGED <<thread_event, flags>>
    /\ UNCHANGED kernel

\* line 523: self._thread_event = threading.Event()
PauseCreate(th) ==
    /\ ThreadAt(th, "create")
    /\ GateCount < MaxGates
    /\ thread_event' = [thread_event EXCEPT ![threads[th].at] = GateCount + 1]
    /\ ThreadGoes(th, [threads[th] EXCEPT !.pc = "load"])
    /\ UNCHANGED flags
    /\ UNCHANGED kernel

\* line 524, the attribute read of self._thread_event.wait(): None has no
\* wait, which raises AttributeError
PauseLoad(th) ==
    /\ ThreadAt(th, "load")
    /\ IF thread_event[threads[th].at] = NoGate
       THEN ThreadEnds(th, "error")
       ELSE ThreadGoes(th, [threads[th] EXCEPT !.pc = "wait",
                                               !.gate = thread_event[threads[th].at]])
    /\ UNCHANGED <<thread_event, flags>>
    /\ UNCHANGED kernel

\* line 524, wait() returns once the Event's flag is set; line 525: return True
PauseWait(th) ==
    /\ ThreadAt(th, "wait")
    /\ threads[th].gate \in flags
    /\ ThreadEnds(th, "true")
    /\ UNCHANGED <<thread_event, flags>>
    /\ UNCHANGED kernel

\* thread th calls resume() on sandbox s (lines 534-535)
SandboxResume(th, s) ==
    /\ ThreadAt(th, "idle")
    /\ ThreadGoes(th, [NoThreadCall EXCEPT !.op = "resume", !.at = Delegate(s), !.pc = "test"])
    /\ UNCHANGED <<thread_event, flags>>
    /\ UNCHANGED kernel

\* line 536: if self._thread_event is not None (else line 540: return False)
ResumeTest(th) ==
    /\ ThreadAt(th, "test") /\ threads[th].op = "resume"
    /\ IF thread_event[threads[th].at] # NoGate
       THEN ThreadGoes(th, [threads[th] EXCEPT !.pc = "set"])
       ELSE ThreadEnds(th, "false")
    /\ UNCHANGED <<thread_event, flags>>
    /\ UNCHANGED kernel

\* line 537: self._thread_event.set(); None has no set, which raises
\* AttributeError
ResumeSet(th) ==
    /\ ThreadAt(th, "set")
    /\ IF thread_event[threads[th].at] = NoGate
       THEN ThreadEnds(th, "error") /\ UNCHANGED flags
       ELSE /\ flags' = flags \cup {thread_event[threads[th].at]}
            /\ ThreadGoes(th, [threads[th] EXCEPT !.pc = "clear"])
    /\ UNCHANGED thread_event
    /\ UNCHANGED kernel

\* line 538: self._thread_event = None; line 539: return True
ResumeClear(th) ==
    /\ ThreadAt(th, "clear")
    /\ thread_event' = [thread_event EXCEPT ![threads[th].at] = NoGate]
    /\ ThreadEnds(th, "true")
    /\ UNCHANGED flags
    /\ UNCHANGED kernel

\* the caller of thread th has its result and may call again
ThreadReturn(th) ==
    /\ ThreadAt(th, "returned")
    /\ ThreadGoes(th, NoThreadCall)
    /\ UNCHANGED <<thread_event, flags>>
    /\ UNCHANGED kernel

\* ---------------------------------------------------- specifications
\* the driver that run(...) calls for each keyword
KwDriver ==
    [none |-> "run_once", terminate |-> "run_until", duration |-> "run_for_period",
     event_count |-> "run_multiple_times", speed |-> "run_at_speed"]

\* the model that is run: the sandbox the drivers are called on is R or a
\* sandbox attached under it
Driven == SubTree("R")

\* the event kernel: tree building, scheduling, run_once and run_until
Next ==
    \/ \E p, c \in SB : AddChild(p, c)
    \/ \E s \in SB, a \in ClockArgs : Schedule(s, a)
    \/ \E s \in Driven : RunOnce(s)
    \/ \E s \in Driven, t \in Time : RunUntil(s, t)
    \/ RunUntilLoop
    \/ Return
    \/ InvokeReturn
    \/ InvokeRaise
    \/ \E s \in SB, a \in ClockArgs : InvokeSchedule(s, a)

Spec == Init /\ [][Next]_vars

\* scheduling: tree building, schedule calls by the user and by actions,
\* run_once to move the clock and to invoke the actions
NextSchedule ==
    \/ \E p, c \in SB : AddChild(p, c)
    \/ \E s \in SB, a \in ClockArgs : Schedule(s, a)
    \/ \E s \in Driven : RunOnce(s)
    \/ Return
    \/ InvokeReturn
    \/ \E s \in SB, a \in ClockArgs : InvokeSchedule(s, a)

SpecSchedule == Init /\ [][NextSchedule]_vars

\* the keyword arguments of run: <<keyword, value>>
RunArgs ==
    {<<"none", 0>>, <<"speed", 1>>}
        \cup {<<"terminate", t>> : t \in Time}
        \cup {<<"duration", d>> : d \in Deltas}
        \cup {<<"event_count", n>> : n \in 0 .. MaxEvents}

\* the drivers: every driver call, made on any sandbox of the chain
\* R - C - G, over events scheduled at an instant on the innermost sandbox;
\* the actions return
NextDrivers ==
    \/ AddChild("R", "C")
    \/ AddChild("C", "G")
    \/ \E t \in Time : Schedule("G", [kind |-> "datetime", v |-> t])
    \/ \E s \in Driven, a \in RunArgs : Run(s, a[1], a[2])
    \/ \E s \in Driven, t \in Time : WarmupUntil(s, t)
    \/ \E s \in Driven, d \in Deltas : WarmupForPeriod(s, d)
    \/ RunUntilLoop
    \/ RunMultipleTimesLoop
    \/ OnWarmupInvoke
    \/ InvokeReturn
    \/ Return

SpecDrivers == Init /\ [][NextDrivers]_vars

\* the arguments of schedule: R adopts C, the user calls schedule on R and
\* on C with callable and non-callable actions and clock_time of every
\* type, run_once fires the events
NextScheduleArgs ==
    \/ AddChild("R", "C")
    \/ \E s \in {"R", "C"}, callable \in BOOLEAN, a \in ClockArgs \cup {OtherArg} :
           ScheduleChecked(s, callable, a)
    \/ \E s \in Driven : RunOnce(s)
    \/ InvokeReturn
    \/ Return

SpecScheduleArgs == Init /\ [][NextScheduleArgs]_vars

\* the hour counter of a sandbox with no events, the clock moving forward:
\* run_until and warmup_until set the clock to a later hour; between those
\* calls the user calls the counter's methods without clock_time
Counter == MainHc("R")

NextCounter ==
    \/ \E t \in Hours : t > clock["R"] /\ RunUntil("R", t)
    \/ \E t \in Hours : t >= clock["R"] /\ WarmupUntil("R", t)
    \/ RunUntilLoop
    \/ OnWarmupInvoke
    \/ \E c \in 0 .. MaxLevel : ObserveCountCall(Counter, c, NoTime)
    \/ \E d \in -MaxLevel .. MaxLevel :
           /\ hc[Counter].last_count + d \in 0 .. MaxLevel
           /\ ObserveChangeCall(Counter, d, NoTime)
    \/ PauseCall(Counter, NoTime)
    \/ ResumeCall(Counter, NoTime)
    \/ \E stat \in Reads : ReadCall(Counter, stat)
    \/ Return

SpecCounter == Init /\ [][NextCounter]_vars

\* the same counter when run_until sets the clock to any hour, later or
\* earlier, and the methods are called with clock_time omitted, right or
\* wrong
NextCounterClock ==
    \/ \E t \in Hours : RunUntil("R", t)
    \/ RunUntilLoop
    \/ \E c \in 0 .. MaxCount, at \in GivenTimes : ObserveCountCall(Counter, c, at)
    \/ \E d \in {-1, 1}, at \in GivenTimes :
           /\ hc[Counter].last_count + d \in 0 .. MaxCount
           /\ ObserveChangeCall(Counter, d, at)
    \/ \E at \in GivenTimes : PauseCall(Counter, at)
    \/ \E at \in GivenTimes : ResumeCall(Counter, at)
    \/ \E stat \in Reads : ReadCall(Counter, stat)
    \/ Return

SpecCounterClock == Init /\ [][NextCounterClock]_vars

\* the same counter across warm-ups when the clock is set to any hour
NextCounterWarmup ==
    \/ \E t \in Hours : RunUntil("R", t)
    \/ \E t \in Hours : WarmupUntil("R", t)
    \/ RunUntilLoop
    \/ OnWarmupInvoke
    \/ \E c \in 0 .. MaxCount : ObserveCountCall(Counter, c, NoTime)
    \/ PauseCall(Counter, NoTime)
    \/ \E t \in Hours : ResumeCall(Counter, [kind |-> "datetime", v |-> t])
    \/ Return

SpecCounterWarmup == Init /\ [][NextCounterWarmup]_vars

\* counters added to a lone sandbox by add_hour_counter or built by the
\* user, with and without keep_history, and observed while run_until moves
\* the clock forward
Added == {h \in DOMAIN hc : h > Len(Constructed)}

NextHistory ==
    \/ \E keep_history \in BOOLEAN : AddHourCounterWith("R", keep_history)
    \/ \E keep_history \in BOOLEAN : ConstructHourCounter("R", keep_history)
    \/ \E t \in Time : t > clock["R"] /\ RunUntil("R", t)
    \/ RunUntilLoop
    \/ \E h \in Added, c \in 0 .. MaxCount : ObserveCountCall(h, c, NoTime)
    \/ Return

SpecHistory == Init /\ [][NextHistory]_vars

\* one step of thread th inside pause() or resume()
ThreadStep(th) ==
    \/ PauseTest(th)
    \/ PauseCreate(th)
    \/ PauseLoad(th)
    \/ PauseWait(th)
    \/ ResumeTest(th)
    \/ ResumeSet(th)
    \/ ResumeClear(th)

\* two threads call pause() and resume() on R and on its child C, in any
\* interleaving of their steps
NextGate ==
    \/ AddChild("R", "C")
    \/ \E th \in Threads, s \in {"R", "C"} : SandboxPause(th, s)
    \/ \E th \in Threads, s \in {"R", "C"} : SandboxResume(th, s)
    \/ \E th \in Threads : PauseTest(th)
    \/ \E th \in Threads : PauseCreate(th)
    \/ \E th \in Threads : PauseLoad(th)
    \/ \E th \in Threads : PauseWait(th)
    \/ \E th \in Threads : ResumeTest(th)
    \/ \E th \in Threads : ResumeSet(th)
    \/ \E th \in Threads : ResumeClear(th)
    \/ \E th \in Threads : ThreadReturn(th)

SpecGate == Init /\ [][NextGate]_vars

\* the interpreter runs every thread that can take a step: a thread inside
\* pause() or resume() is not held up for ever while it can go on
SpecGateFair == SpecGate /\ \A th \in Threads : WF_vars(ThreadStep(th))

\* a driver thread runs the events of R with run_until and
\* run_multiple_times while thread t1 calls pause() and resume()
NextGateDriver ==
    \/ \E t \in Time : Schedule("R", [kind |-> "datetime", v |-> t])
    \/ \E t \in Time : RunUntil("R", t)
    \/ \E n \in 1 .. MaxEvents : RunMultipleTimes("R", n)
    \/ RunUntilLoop
    \/ RunMultipleTimesLoop
    \/ InvokeReturn
    \/ Return
    \/ SandboxPause("t1", "R")
    \/ SandboxResume("t2", "R")
    \/ \E th \in Threads : PauseTest(th)
    \/ \E th \in Threads : PauseCreate(th)
    \/ \E th \in Threads : PauseLoad(th)
    \/ \E th \in Threads : PauseWait(th)
    \/ \E th \in Threads : ResumeTest(th)
    \/ \E th \in Threads : ResumeSet(th)
    \/ \E th \in Threads : ResumeClear(th)
    \/ \E th \in Threads : ThreadReturn(th)

SpecGateDriver == Init /\ [][NextGateDriver]_vars

\* the counter the model observes and pauses: the main hour counter of C
Watched == {MainHc("C")}

\* warm-up: R adopts C, counters are added to C before or after that,
\* events of C observe and the user pauses the main counter of C, and
\* warmup_until runs the tree and resets the statistics
NextWarmup ==
    \/ AddChild("R", "C")
    \/ AddHourCounter("C")
    \/ \E t \in Time : Schedule("C", [kind |-> "datetime", v |-> t])
    \/ \E s \in Driven, t \in Time : WarmupUntil(s, t)
    \/ RunUntilLoop
    \/ OnWarmupInvoke
    \/ InvokeReturn
    \/ \E h \in Watched, c \in 0 .. MaxCount : InvokeObserve(h, c)
    \/ \E h \in Watched : Pause(h)
    \/ Return

SpecWarmup == Init /\ [][NextWarmup]_vars

\* ------------------------------------------------------------ claims
\* a precedes b in the order (scheduled_time, index)
Precedes(a, b) ==
    \/ a.scheduled_time < b.scheduled_time
    \/ a.scheduled_time = b.scheduled_time /\ a.index < b.index

\* q2 is q1 with event e taken out, the others in the same order
Removed(q1, q2, e) ==
    \E k \in 1 .. Len(q1) :
        /\ q1[k] = e
        /\ q2 = SubSeq(q1, 1, k - 1) \o SubSeq(q1, k + 1, Len(q1))

\* this step extracts an event for invocation (run_once past its early return)
Fires == cur = NoEvent /\ cur' # NoEvent

\* the step fired the least pending event of the tree under r: the event is
\* taken out of its owner's list, every other list is untouched, the clock
\* stored at r is the event's scheduled_time
FiredLeast(r) ==
    /\ cur' \in Pending(r)
    /\ \A x \in Pending(r) : x = cur' \/ Precedes(cur', x)
    /\ Removed(fel[cur'.owner], fel'[cur'.owner], cur')
    /\ \A s \in SB \ {cur'.owner} : fel'[s] = fel[s]
    /\ clock'[r] = cur'.scheduled_time
    /\ \A s \in SB \ {r} : clock'[s] = clock[s]

\* C1: a run_once call made on any sandbox of a tree fires the pending event
\* that is least by (scheduled_time, index) over all the queues of the tree,
\* removes exactly that event from its owner's queue, sets the root clock to
\* its scheduled_time and returns true; with nothing pending in the tree it
\* returns false and changes no state.  Every extraction made by a driver
\* loop is such a run_once.
C1_RunOnceFiresLeast ==
    [][ /\ (pc = "idle" /\ call'.op = "run_once") =>
            \A s \in SB : RunOnce(s) =>
              IF Pending(TreeRoot(s)) = {}
              THEN /\ call'.result = "false"
                   /\ pc' = "returned"
                   /\ UNCHANGED <<parent, children, clock, fel, eventCount,
                                  scheduleCalls, isFirst, firstTime, realTimeLast,
                                  event_count, thread_event, flags, threads, seed, rng, user, actions, invoked, on_warmup, hour_counters, hc, cur, demo>>
              ELSE Fires /\ FiredLeast(TreeRoot(s))
        /\ Fires => IsRoot(call'.at) /\ FiredLeast(call'.at)
        /\ (call.op = "run_once" /\ pc = "invoking" /\ call'.result # "error")
              => call'.result = "true" /\ pc' = "returned"
      ]_vars

\* run_once has fired the event of a grandchild while the root and the child
\* had later events pending
C1_Witness ==
    /\ pc = "invoking" /\ call.op = "run_once"
    /\ cur.owner = "G" /\ parent["G"] = "C" /\ parent["C"] = "R"
    /\ fel["R"] # <<>>

\* C2: two pending events with the same scheduled_time are fired in the
\* order in which their schedule calls were made, whichever sandboxes of the
\* tree own them: the event fired was scheduled before every other pending
\* event of the same instant.
C2_TiesInScheduleOrder ==
    [][Fires => \A x \in Pending(call'.at) :
                   (x # cur' /\ x.scheduled_time = cur'.scheduled_time)
                       => cur'.seq < x.seq]_vars

\* an event of the child is being invoked while an event of the same
\* instant, scheduled later on the root, waits
C2_Witness ==
    /\ pc = "invoking" /\ cur.owner = "C" /\ parent["C"] = "R"
    /\ \E x \in Range(fel["R"]) :
           x.scheduled_time = cur.scheduled_time /\ x.seq > cur.seq

DriverReturned(ops) ==
    pc = "returned" /\ call.op \in ops /\ call.result \in {"true", "false"}

\* C3: when run_until(t) returns, the root clock equals t, no event with
\* scheduled_time <= t is pending in the tree (events scheduled by actions
\* during the call included), the result is true exactly when an event
\* remains pending; and no step of the call takes away a pending event
\* with scheduled_time > t.
C3_RunUntilPost ==
    /\ [](DriverReturned({"run_until"}) =>
            /\ clock[call.at] = call.terminate
            /\ \A e \in Pending(call.at) : e.scheduled_time > call.terminate
            /\ (call.result = "true") <=> (Pending(call.at) # {}))
    /\ [][(call.op = "run_until" /\ pc \in {"loop", "invoking"}) =>
             \A e \in Pending(call.at) :
                 e.scheduled_time > call.terminate => e \in Pending(call.at)']_vars

\* run_until(0) on a child has returned true: the event created first, due
\* after 0, is still pending and an event created after it has been fired
C3_Witness ==
    /\ DriverReturned({"run_until"}) /\ call.result = "true"
    /\ call.terminate = 0 /\ eventCount = 2 /\ children[call.at] # <<>>
    /\ \A e \in Pending(call.at) : e.index = 1

DriverOps ==
    {"run_once", "run_until", "run_for_period", "run_multiple_times",
     "run_at_speed", "warmup_until", "warmup_for_period"}

\* an action's exception has left the driver call
ActionRaised == pc = "invoking" /\ call'.result = "error"

\* the least pending event of the tree under r, NoEvent if there is none
Least(r) ==
    IF Pending(r) = {} THEN NoEvent
    ELSE CHOOSE e \in Pending(r) : \A x \in Pending(r) : x = e \/ Precedes(e, x)

\* C9: when the action of the fired event raises, the driver call ends with
\* the error, the event is out of its owner's queue, the root clock is the
\* event's scheduled_time and every other pending event is still queued;
\* the run_once that follows fires the next event in order.
C9_ActionRaises ==
    /\ [][ActionRaised =>
             /\ pc' = "returned" /\ cur' = NoEvent
             /\ cur \notin Pending(call.at)'
             /\ clock'[call.at] = cur.scheduled_time
             /\ fel' = fel]_vars
    /\ [](pc = "returned" /\ call.result = "error" /\ call.op \in DriverOps
            => HeadEvent(call.at) = Least(call.at))

\* run_until has been ended by the exception of an event's action while
\* other events wait, on the root and below it
C9_Witness ==
    /\ pc = "returned" /\ call.op = "run_until" /\ call.result = "error"
    /\ call.terminate > clock[call.at]
    /\ \E s \in SB \ {call.at} : fel[s] # <<>>

RunOps ==
    {"run_once", "run_until", "run_for_period", "run_multiple_times", "run_at_speed"}

\* C4: the clock read on any sandbox is the clock stored at the root of
\* its tree; no step writes the stored clock of a sandbox that has a parent;
\* a step is a driver call made on sandbox s exactly when it is the same
\* call made on the root of the tree of s (same effect, same result; the
\* calls compared are those of the driver the step has entered); the
\* driver loops, the invocation and the warm-up reset run at a root.
C4_DelegatesToRoot ==
    /\ [](\A s \in SB : ClockTime(s) = clock[TreeRoot(s)])
    /\ [][ /\ \A s \in SB : ~IsRoot(s) => clock'[s] = clock[s]
           /\ (pc = "idle" /\ pc' # "idle") =>
                \A s \in SB : ~IsRoot(s) =>
                    LET r == TreeRoot(s)
                    IN IF call'.op \in RunOps
                       THEN \A a \in RunArgs : KwDriver[a[1]] = call'.op =>
                                (Run(s, a[1], a[2]) <=> Run(r, a[1], a[2]))
                       ELSE /\ \A u \in Time :
                                   WarmupUntil(s, u) <=> WarmupUntil(r, u)
                            /\ \A d \in Deltas :
                                   WarmupForPeriod(s, d) <=> WarmupForPeriod(r, d)
           /\ pc' \in {"loop", "invoking", "on_warmup"} => IsRoot(call'.at)
         ]_vars

\* in the chain R - C - G a warm-up call has fired an event of G and moved
\* the root's clock; the stored clocks of C and G are where they started
C4_Witness ==
    /\ parent["G"] = "C" /\ parent["C"] = "R"
    /\ pc = "returned" /\ call.op = "warmup_for_period" /\ call.result = "false"
    /\ eventCount > 0 /\ fel["G"] = <<>>
    /\ clock["R"] > DatetimeMin
    /\ clock["C"] = DatetimeMin /\ clock["G"] = DatetimeMin

\* C5 as stated: whichever the predicate, a run(...) call that returns has
\* returned true exactly when an event is still pending in the tree.
C5_RunResult ==
    (pc = "returned" /\ call.op \in RunOps /\ call.result \in {"true", "false"})
        => ((call.result = "true") <=> (Pending(call.at) # {}))

\* the statistics of counter r are as a warm-up at instant t leaves them
ResetAt(r, t) ==
    /\ r.initial_time = t /\ r.last_time = t
    /\ r.total_hours = 0 /\ r.cum_value = 0
    /\ r.total_increment = 0 /\ r.total_decrement = 0

WarmupReturned ==
    pc = "returned" /\ call.op = "warmup_until" /\ call.result \in {"true", "false"}

\* C6 as stated: when warmup_until(t) has returned, every hour counter of
\* every sandbox in the tree (whenever it was added, whenever its sandbox
\* was attached) has initial_time = last_time = t and zero totals.
C6_WarmupResetsAll ==
    WarmupReturned =>
        \A h \in DOMAIN hc :
            hc[h].sandbox \in SubTree(call.at) => ResetAt(hc[h], call.terminate)

\* C7: the warm-up reset (the step from the end of the run to t to the
\* return of warmup_until) changes statistics only: every queue is as it
\* was, the root clock is t before and after, no counter is added or
\* removed, and every counter keeps its last_count and its paused flag.
C7_ResetKeepsEvents ==
    [][pc = "on_warmup" =>
          /\ pc' = "returned" /\ call' = call
          /\ fel' = fel
          /\ clock[call.at] = call.terminate /\ clock' = clock
          /\ DOMAIN hc' = DOMAIN hc
          /\ \A h \in DOMAIN hc :
                 /\ hc'[h].last_count = hc[h].last_count
                 /\ hc'[h].paused = hc[h].paused
                 /\ hc'[h].sandbox = hc[h].sandbox]_vars

\* warmup_until has returned true (events are left pending) with the main
\* counter of the child paused, its last_count 1 and its statistics reset
C7_Witness ==
    /\ WarmupReturned /\ call.result = "true" /\ parent["C"] = "R"
    /\ Pending(call.at) # {}
    /\ hc[MainHc("C")].paused /\ hc[MainHc("C")].last_count = 1
    /\ ResetAt(hc[MainHc("C")], call.terminate)

\* C8: while an event's action runs, the clock read on every sandbox of the
\* tree is the event's scheduled_time; no step of the action changes a
\* stored clock; an observation made by the action on a counter of the
\* tree is taken at the event's scheduled_time (last_time, and the hours
\* accounted since the previous observation unless paused).
C8_ClockDuringAction ==
    /\ [](pc = "invoking" =>
             \A s \in SubTree(call.at) : ClockTime(s) = cur.scheduled_time)
    /\ [][pc = "invoking" =>
             /\ clock' = clock
             /\ \A h \in DOMAIN hc :
                    (hc'[h] # hc[h] /\ hc[h].sandbox \in SubTree(call.at)) =>
                        /\ hc'[h].last_time = cur.scheduled_time
                        /\ ~hc[h].paused =>
                               hc'[h].total_hours =
                                   hc[h].total_hours
                                       + (cur.scheduled_time - hc[h].last_time)]_vars

\* an event of the child has observed its main counter at an instant later
\* than the child's own stored clock: the hour up to the root's clock is
\* accounted
C8_Witness ==
    /\ pc = "loop" /\ parent["C"] = "R"
    /\ clock["R"] > clock["C"]
    /\ ~hc[MainHc("C")].paused
    /\ hc[MainHc("C")].last_time = clock["R"]
    /\ hc[MainHc("C")].total_hours > 0

\* C11: a schedule call whose action is not callable, or whose clock_time
\* is neither absent, a duration nor an instant, ends with an error; no
\* queue gains or loses an event, no event is created and no stored clock
\* changes.
C11_BadScheduleArg ==
    [][(pc = "idle" /\ call'.op = "schedule") =>
          \A s \in SB, callable \in BOOLEAN, a \in ClockArgs \cup {OtherArg} :
              (ScheduleChecked(s, callable, a) /\ (~callable \/ a = OtherArg)) =>
                  /\ call'.result = "error"
                  /\ fel' = fel /\ eventCount' = eventCount
                  /\ clock' = clock
                  /\ cur' = NoEvent]_vars

\* a schedule call on the child has ended with an error while the root's
\* clock has advanced, so that no duration reaches below dt.datetime.min,
\* and an event waits in the child's queue
C11_Witness ==
    /\ pc = "returned" /\ call.op = "schedule" /\ call.result = "error"
    /\ call.at = "C" /\ parent["C"] = "R"
    /\ clock["R"] > DatetimeMin
    /\ fel["C"] # <<>>

\* the instant the claim gives for schedule(action, clock_time) on s
ClaimedTime(s, a) ==
    CASE a.kind = "none" -> clock[TreeRoot(s)]
      [] a.kind = "timedelta" -> clock[TreeRoot(s)] + a.v
      [] a.kind = "datetime" -> a.v

\* the step added exactly one event, at the claimed instant, to the queue of
\* s and changed no other queue, no event already queued, no clock; no
\* action was invoked
AddsOneEvent(s, a) ==
    /\ \E e \in Range(fel'[s]) :
           /\ e.scheduled_time = ClaimedTime(s, a)
           /\ e.owner = s
           /\ Removed(fel'[s], fel[s], e)
    /\ \A x \in SB \ {s} : fel'[x] = fel[x]
    /\ clock' = clock
    /\ cur' = NoEvent /\ pc' # "invoking" /\ hc' = hc

\* the call raised: no queue and no clock changed, no action was invoked
AddsNothing ==
    /\ fel' = fel /\ clock' = clock
    /\ cur' = NoEvent /\ pc' # "invoking" /\ hc' = hc

\* the steps among which the schedule calls are: a user call that is no
\* driver call and builds no tree, or the body of an action
ScheduleStep ==
    \/ pc = "idle" /\ pc' = "idle" /\ children' = children
    \/ pc = "invoking"

\* the step is a schedule(action, clock_time) call on s: made by the user
\* between driver calls, or made by the action being invoked
ScheduleCall(s, a) ==
    IF pc = "idle" THEN Schedule(s, a) ELSE InvokeSchedule(s, a)

HoursAt(r, k) == IF k \in DOMAIN r.hours_for_count THEN r.hours_for_count[k] ELSE 0

\* the counts a counter has spent time at, before or after a step
Counts(r, r2) == DOMAIN r.hours_for_count \cup DOMAIN r2.hours_for_count

Larger(a, b) == IF a >= b THEN a ELSE b

\* what the claim makes of a running counter r observed at count c at
\* instant t: r2 is the counter afterwards
AccruedTo(r, r2, c, t) ==
    LET elapsed == t - r.last_time
    IN /\ r2.total_hours = r.total_hours + elapsed
       /\ \A k \in Counts(r, r2) \cup {r.last_count} :
              HoursAt(r2, k) = HoursAt(r, k) + (IF k = r.last_count THEN elapsed ELSE 0)
       /\ r2.cum_value = r.cum_value + elapsed * r.last_count
       /\ r2.total_increment = r.total_increment + Larger(c - r.last_count, 0)
       /\ r2.total_decrement = r.total_decrement + Larger(r.last_count - c, 0)
       /\ r2.last_time = t
       /\ r2.last_count = c
       /\ r2.initial_time = r.initial_time
       /\ r2.paused = r.paused

\* C12: on a counter that is not paused, observe_count(c) at clock t adds
\* t - last_time to total_hours and to the hours at last_count, that time
\* weighted by last_count to cum_value, the rise of the count to
\* total_increment and its fall to total_decrement, and then holds
\* last_time = t and last_count = c; observe_change(d) does what
\* observe_count(last_count + d) does.
C12_ObserveAccrues ==
    [][(pc = "idle" /\ ~hc[Counter].paused
            /\ call'.op \in {"observe_count", "observe_change"}) =>
          LET r == hc[Counter]
              r2 == hc'[Counter]
              t == ClockTime("R")
          IN /\ \A c \in 0 .. MaxLevel :
                    ObserveCountCall(Counter, c, NoTime) =>
                        call'.result = "none" /\ AccruedTo(r, r2, c, t)
             /\ \A d \in -MaxLevel .. MaxLevel :
                    ObserveChangeCall(Counter, d, NoTime) =>
                        call'.result = "none" /\ AccruedTo(r, r2, r.last_count + d, t)]_vars

\* Scenario C an hour shorter and a count lower: +1 at T0, +1 at T0+1h
\* and -2 at T0+2h have been observed on a counter never paused nor
\* warmed up
C12_Witness ==
    LET r == hc[Counter]
    IN /\ pc = "returned" /\ call.op = "observe_change"
       /\ r.initial_time = DatetimeMin /\ r.last_time = DatetimeMin + 2
       /\ ~r.ever_paused
       /\ r.last_count = 0
       /\ r.total_hours = 2 /\ r.cum_value = 3
       /\ HoursAt(r, 1) = 1 /\ HoursAt(r, 2) = 1
       /\ r.total_increment = 2 /\ r.total_decrement = 2

\* the methods of a counter as the frame of a call names them
HcOps == {"observe_count", "observe_change", "hc.pause", "hc.resume",
          "statistic", "update_to_clock_time"}

\* r2 has gained the time from r's last_time to t, at r's count
Gained(r, r2, t) ==
    /\ r2.total_hours = r.total_hours + (t - r.last_time)
    /\ r2.cum_value = r.cum_value + (t - r.last_time) * r.last_count

SameSums(r, r2) ==
    /\ r2.total_hours = r.total_hours
    /\ r2.cum_value = r.cum_value

\* C13: the time between a pause and the resume is left out of the
\* statistics. Step by step: a pause of a running counter first gains the
\* time up to the pause at the current count; no method called on a paused
\* counter changes total_hours or cum_value; a resume restarts the
\* counter's time at the clock of the resume; and every later observation
\* or read of the running counter gains the time since then only.
C13_PausedTimeExcluded ==
    [][(pc = "idle" /\ call'.op \in HcOps) =>
          LET r == hc[Counter]
              r2 == hc'[Counter]
              t == ClockTime("R")
          IN /\ (~r.paused /\ call'.op = "hc.pause") =>
                    r2.paused /\ Gained(r, r2, t) /\ r2.last_time = t
             /\ r.paused => SameSums(r, r2)
             /\ (r.paused /\ call'.op = "hc.resume") =>
                    ~r2.paused /\ r2.last_time = t /\ r2.last_count = r.last_count
             /\ (~r.paused /\ call'.op \notin {"hc.pause", "hc.resume"}) =>
                    ~r2.paused /\ Gained(r, r2, t) /\ r2.last_time = t
             /\ (~r.paused /\ call'.op = "hc.resume") => r2 = r]_vars

\* the opening of Scenario D an hour shorter: at count 1 from T0, paused
\* at T0+1h, the counter has just been resumed at T0+2h holding one hour
C13_Witness ==
    LET r == hc[Counter]
    IN /\ pc = "returned" /\ call.op = "hc.resume"
       /\ r.initial_time = DatetimeMin /\ r.last_time = DatetimeMin + 2
       /\ r.ever_paused /\ ~r.paused
       /\ r.last_count = 1
       /\ r.total_hours = 1 /\ r.cum_value = 1

\* r2 holds the sums r holds
SameTotals(r, r2) ==
    /\ r2.total_hours = r.total_hours
    /\ r2.cum_value = r.cum_value
    /\ r2.hours_for_count = r.hours_for_count
    /\ r2.total_increment = r.total_increment
    /\ r2.total_decrement = r.total_decrement

WrongTimes(t) == {at \in GivenTimes : at.kind = "datetime" /\ at.v # t}

\* the call of the step ends with an error and leaves the counter as it was
FailsUnchanged(r, r2) == call'.result = "error" /\ r2 = r

\* the call of the step returns normally and leaves the counter as it was
SkipsUnchanged(r, r2) == call'.result = "none" /\ r2 = r

\* the claim as stated: an observation with the clock before last_time,
\* and any observe_count, observe_change, pause or resume given a
\* clock_time that is not the sandbox clock, ends with an error and leaves
\* every field of the counter unchanged
C15_Original ==
    [][(pc = "idle" /\ call'.op \in HcOps) =>
          LET r == hc[Counter]
              r2 == hc'[Counter]
              t == ClockTime("R")
              op == call'.op
          IN \/ FailsUnchanged(r, r2)
             \/ /\ ~(op \in {"observe_count", "observe_change"} /\ t < r.last_time)
                /\ \A at \in WrongTimes(t) :
                       /\ \A c \in 0 .. MaxCount : ~ObserveCountCall(Counter, c, at)
                       /\ \A d \in {-1, 1} : ~ObserveChangeCall(Counter, d, at)
                       /\ ~PauseCall(Counter, at)
                       /\ ~ResumeCall(Counter, at)]_vars

\* C15: an observation with the clock before last_time ends with an error;
\* observe_count and observe_change, pause on a counter that is not paused
\* and resume on a paused counter, given a clock_time that is not the
\* sandbox clock, end with an error; pause on a paused counter and resume
\* on a counter that is not paused return without an error whatever
\* clock_time they are given. In all these cases every field of the
\* counter is unchanged.
C15_ClockErrors ==
    [][(pc = "idle" /\ call'.op \in HcOps) =>
          LET r == hc[Counter]
              r2 == hc'[Counter]
              t == ClockTime("R")
              op == call'.op
          IN /\ \/ FailsUnchanged(r, r2)
                \/ /\ ~(op \in {"observe_count", "observe_change"} /\ t < r.last_time)
                   /\ \A at \in WrongTimes(t) :
                          /\ \A c \in 0 .. MaxCount : ~ObserveCountCall(Counter, c, at)
                          /\ \A d \in {-1, 1} : ~ObserveChangeCall(Counter, d, at)
                          /\ ~(~r.paused /\ PauseCall(Counter, at))
                          /\ ~(r.paused /\ ResumeCall(Counter, at))
             /\ \/ SkipsUnchanged(r, r2)
                \/ \A at \in WrongTimes(t) :
                       /\ ~(r.paused /\ PauseCall(Counter, at))
                       /\ ~(~r.paused /\ ResumeCall(Counter, at))]_vars

\* an observe_count has ended with an error although the clock is not
\* before last_time, on a counter that holds an hour at count 1
C15_Witness ==
    LET r == hc[Counter]
    IN /\ pc = "returned" /\ call.op = "observe_count" /\ call.result = "error"
       /\ ClockTime("R") >= r.last_time
       /\ r.total_hours >= 1 /\ r.cum_value >= 1 /\ r.total_increment >= 1

RECURSIVE SumOver(_, _, _)
\* the sum of f[k] * w(k) over the keys k in S, w being 1 or the key
SumOver(f, S, weighted) ==
    IF S = {} THEN 0
    ELSE LET k == CHOOSE x \in S : TRUE
         IN f[k] * (IF weighted THEN k ELSE 1) + SumOver(f, S \ {k}, weighted)

\* the sum of hours_for_count[c] * c over the counts c
WeightedHours(r) == SumOver(r.hours_for_count, DOMAIN r.hours_for_count, TRUE)

\* the sum of hours_for_count[c] over the counts c
SummedHours(r) == SumOver(r.hours_for_count, DOMAIN r.hours_for_count, FALSE)

\* C16: in every state cum_value of a counter is the sum over the counts c
\* of hours_for_count[c] * c.
C16_CumValueIsWeightedHours ==
    \A h \in DOMAIN hc : hc[h].cum_value = WeightedHours(hc[h])

\* after a warm-up at T0+1h and a pause the counter holds an hour at
\* count 2
C16_Witness ==
    LET r == hc[Counter]
    IN /\ r.initial_time = DatetimeMin + 1 /\ r.ever_paused
       /\ r.cum_value = 2 /\ HoursAt(r, 2) = 1
       /\ DOMAIN r.hours_for_count # {2}

\* C17: a counter that has never been paused holds as total_hours the
\* time from initial_time to last_time, which is also the sum of
\* hours_for_count over the counts; warm-ups keep it so.
C17_NeverPausedHours ==
    \A h \in DOMAIN hc :
        ~hc[h].ever_paused =>
            /\ hc[h].total_hours = hc[h].last_time - hc[h].initial_time
            /\ hc[h].total_hours = SummedHours(hc[h])

\* a counter never paused and warmed up at T0+1h has been read at T0+2h
\* after a change of count, and holds one hour
C17_Witness ==
    LET r == hc[Counter]
    IN /\ pc = "returned" /\ call.op = "statistic"
       /\ ~r.ever_paused
       /\ r.initial_time = DatetimeMin + 1 /\ r.last_time = DatetimeMin + 2
       /\ r.total_hours = 1 /\ r.total_increment > 0

\* C18: in every state last_time of a counter is not earlier than its
\* initial_time.
C18_LastTimeFromInitial ==
    \A h \in DOMAIN hc : hc[h].last_time >= hc[h].initial_time

\* C19: total_increment and total_decrement of a counter are never
\* negative, and no step other than a warm-up reset lowers either.
C19_TurnoverGrows ==
    /\ [](\A h \in DOMAIN hc : hc[h].total_increment >= 0 /\ hc[h].total_decrement >= 0)
    /\ [][pc # "on_warmup" =>
             \A h \in DOMAIN hc :
                 /\ hc'[h].total_increment >= hc[h].total_increment
                 /\ hc'[h].total_decrement >= hc[h].total_decrement]_vars

\* between warm-ups the count has gone up by 2 and, after a pause and a
\* resume, down again
C19_Witness ==
    LET r == hc[Counter]
    IN /\ pc = "returned" /\ call.op \in {"observe_count", "observe_change"}
       /\ r.initial_time > DatetimeMin
       /\ r.ever_paused /\ ~r.paused
       /\ r.total_increment = 2 /\ r.total_decrement = 2

\* what the claim makes of counter r read at clock t: r2, the counter
\* afterwards, is up to the clock, and a running counter has gained the
\* time since last_time at its count, which has not moved
BroughtTo(r, r2, t) ==
    IF r.paused THEN r2 = [r EXCEPT !.last_time = t]
    ELSE AccruedTo(r, r2, r.last_count, t)

Listed(h) == \E s \in SB : h \in Range(hour_counters[s])

\* C21: after observe_count(c) at clock t on a counter that
\* add_hour_counter(keep_history = true) returned, the counter's history
\* holds the entry t -> c; a counter created without keep_history has no
\* history.
C21_HistoryKept ==
    [][(pc = "idle" /\ call'.op = "observe_count" /\ call'.result = "none") =>
          \A h \in Added, c \in 0 .. MaxCount :
              (Listed(h) /\ ObserveCountCall(h, c, NoTime)) =>
                  LET r2 == hc'[h]
                  IN IF hc[h].asked_history
                     THEN /\ History(r2) # None
                          /\ <<ClockTime("R") - r2.initial_time, c>> \in History(r2)
                     ELSE History(r2) = None]_vars

\* this step ends the invocation of an event owned by s
Invoked(s) == cur # NoEvent /\ cur' = NoEvent /\ cur.owner = s

\* C22: event_count of each sandbox is the number of its events invoked
\* so far: it starts at 0, goes up by one with every step that ends the
\* invocation of an event the sandbox owns, and no other step changes it.
C22_EventCount ==
    /\ \A s \in SB : event_count[s] = 0
    /\ [][\A s \in SB :
             event_count'[s] = event_count[s] + (IF Invoked(s) THEN 1 ELSE 0)]_vars

\* ------------------------------------------------------------ threads
\* thread th is inside a pause() call that found no gate set
Pausing(th) ==
    threads[th].op = "pause" /\ threads[th].pc \in {"create", "load", "wait"}

\* a resume() call on root r has returned true
Resumed(r) ==
    \E th \in Threads :
        /\ threads[th].op = "resume" /\ threads[th].at = r
        /\ threads[th].pc = "returned" /\ threads[th].result = "true"

\* the call of thread th has returned result
Returned(th, op, result) ==
    threads[th].op = op /\ threads[th].pc = "returned" /\ threads[th].result = result

\* C23: a pause() call that finds no gate set does not return until a
\* resume() has set its gate, and then returns true; once a resume() on
\* the tree has returned true the blocked pause() does return true; a
\* resume() that finds no gate and a pause() that finds a gate set return
\* false at once and leave the gate as it is.
C23_PauseGate ==
    /\ [][\A th \in Threads :
             (Pausing(th) /\ threads'[th].pc = "returned") =>
                 threads'[th].result = "true" /\ threads[th].gate \in flags]_vars
    /\ [][\A th \in Threads :
             (threads[th].pc = "test" /\ threads'[th] # threads[th]
                  /\ (threads[th].op = "resume") = (thread_event[threads[th].at] = NoGate)) =>
                 /\ threads'[th].pc = "returned" /\ threads'[th].result = "false"
                 /\ thread_event' = thread_event /\ flags' = flags]_vars
    /\ \A th \in Threads :
           (Pausing(th) /\ Resumed(threads[th].at)) ~> Returned(th, "pause", "true")

\* a pause() call has set the gate of root r and no resume() has been
\* called on r since
Gated(r) ==
    /\ thread_event[r] # NoGate
    /\ \A th \in Threads : ~(threads[th].op = "resume" /\ threads[th].at = r)

\* C24: while a pause() called from another thread has the gate of the
\* root set and no resume() has been called, the loop of run_until or
\* run_multiple_times on that root fires no event.
C24_PauseStopsDriver ==
    [][(call.op \in {"run_until", "run_multiple_times"} /\ Gated(call.at)) => ~Fires]_vars


\* C25: the first run_at_speed call only records the wall-clock marker and
\* fires nothing; every later run_at_speed call completes without error and
\* keeps the marker
C25_RunAtSpeed ==
    [][(pc = "idle" /\ call'.op = "run_at_speed") =>
          IF realTimeLast[call'.at]
          THEN call'.result # "error" /\ realTimeLast'[call'.at]
          ELSE /\ realTimeLast'[call'.at]
               /\ cur' = NoEvent /\ fel' = fel /\ clock' = clock]_vars


\* ------------------------------------------------------------- replay
\* a program of seed, schedule, run_once and observe_count statements is
\* written and then run twice in one process, on R and then on C
NextReplay ==
    \/ \E st \in Statements : Write(st)
    \/ \E e \in {"R", "C"} : PlaySeed(e)
    \/ \E e \in {"R", "C"} : PlayScheduleDrawn(e)
    \/ \E e \in {"R", "C"} : PlayRunOnce(e)
    \/ \E e \in {"R", "C"} : PlayObserveDrawn(e)
    \/ \E e \in {"R", "C"} : Look(e)
    \/ InvokeReturn
    \/ Return

SpecReplay == Init /\ [][NextReplay]_vars

\* the program sets the seed first
SeedsFirst == user.script # <<>> /\ user.script[1].op = "seed"

\* C26: two runs of the same statements that start from the same seed read
\* back the same head_event_time and the same observed count after every
\* statement
C26_Replay ==
    SeedsFirst =>
        \A i \in 1 .. Len(user.seen["C"]) : user.seen["C"][i] = user.seen["R"][i]

\* both runs of a seeded program that schedules at a drawn instant and
\* observes a drawn count have ended, with an event pending and a count of 1
C26_Witness ==
    /\ SeedsFirst
    /\ Len(user.seen["C"]) = MaxScript
    /\ \E i, j \in 2 .. MaxScript :
           /\ user.script[i].op = "schedule_drawn"
           /\ user.script[j].op = "observe_drawn"
    /\ user.seen["C"] = user.seen["R"]
    /\ \E i \in 1 .. MaxScript : ~user.seen["C"][i][1].none
    /\ \E i \in 1 .. MaxScript : user.seen["C"][i][2] = 1


\* ------------------------------------------------------------- Action
\* what the add calls of the model hand over
Checkable == {c \in Callables : c.name # "g"}

\* what is added unchecked: a value, and f without parameters
Unchecked == {NotCallable} \cup {c \in Checkable : c.kind = "function" /\ c.required = 0}

\* one Action of any declared argument count is built; callables, lists of
\* two callables and the Action itself are added to it with the check, a
\* few without, and it is cleared
NextActionAdd ==
    \/ \E n \in 0 .. MaxArity : actions = <<>> /\ NewAction(n)
    \/ \E c \in Checkable : AddCallable(1, c, TRUE)
    \/ \E c \in Unchecked : AddCallable(1, c, FALSE)
    \/ \E c \in Checkable, d \in Checkable \cap Functions : AddList(1, c, d, TRUE)
    \/ \E check \in BOOLEAN : AddAction(1, 1, check)
    \/ ActionClear(1)
    \/ Return

SpecActionAdd == Init /\ [][NextActionAdd]_vars

\* required parameters minus already-bound positional and keyword arguments
ResidualArity(c) == c.required - (c.args + c.keywords)

Fitting(a) ==
    \A i \in 1 .. Len(a.subactions) :
        a.subactions[i].kind # "value" /\ ResidualArity(a.subactions[i]) = a.argcount

Arguments == {0, 1}

\* Actions A and B (the first two built, of no or one declared argument)
\* are filled by checked adds of f and g; then sums of them are formed, and
\* every Action is invoked
NextActionSum ==
    \/ \E n \in 0 .. 1 : Len(actions) < 2 /\ NewAction(n)
    \/ \E a \in 1 .. 2, c \in Functions : Len(actions) <= 2 /\ AddCallable(a, c, TRUE)
    \/ \E a, b \in 1 .. 2 : ActionSum(a, b)
    \/ \E a \in 1 .. MaxActions, x \in Arguments : ActionInvoke(a, x)
    \/ Return

SpecActionSum == Init /\ [][NextActionSum]_vars

\* the calls that invoke(x) on the subactions subs makes, in order
CallsOf(subs, x) == [i \in 1 .. Len(subs) |-> <<subs[i], x>>]

\* a + b has returned the new Action s
Summed(a, b, s) ==
    /\ ActionSum(a, b)
    /\ call'.result = "none"
    /\ s = Len(actions) + 1

\* C28: a + b is a new Action that holds the callables of a in a's order
\* followed by those of b in b's order, a and b are left as they were, and
\* invoke(x) on an Action calls each of its callables once with x, in the
\* order it holds them
C28_SumInvokesInOrder ==
    /\ [][(pc = "idle" /\ call'.op = "sum") =>
            \A a, b \in 1 .. 2 :
                ActionSum(a, b) =>
                    /\ \A k \in DOMAIN actions : actions'[k] = actions[k]
                    /\ call'.result = "none" =>
                           /\ DOMAIN actions' = 1 .. (Len(actions) + 1)
                           /\ actions'[Len(actions) + 1].subactions
                                  = actions[a].subactions \o actions[b].subactions]_vars
    /\ [][(pc = "idle" /\ call'.op = "invoke" /\ call'.result = "none") =>
            \A s \in DOMAIN actions, x \in Arguments :
                ActionInvoke(s, x) => invoked' = CallsOf(actions[s].subactions, x)]_vars

\* the sum of an Action holding g and one holding f has been invoked:
\* g was called before f, each once
C28_Witness ==
    /\ pc = "returned" /\ call.op = "invoke" /\ call.result = "none" /\ call.n = 3
    /\ Len(actions) >= 3
    /\ actions[1].subactions # <<>> /\ actions[2].subactions # <<>>
    /\ actions[3].subactions = actions[1].subactions \o actions[2].subactions
    /\ Len(invoked) = 2
    /\ invoked[1][1].name = "g" /\ invoked[2][1].name = "f"
    /\ invoked[1][2] = 1 /\ invoked[2][2] = 1


\* --------------------------------------------------------- percentile
\* the main counter of R where the clock moves forward in steps of
\* TickSeconds: the user sets the count between run_until calls and asks
\* for percentiles
NextPercentile ==
    \/ \E t \in Hours : t > clock["R"] /\ RunUntil("R", t)
    \/ RunUntilLoop
    \/ \E c \in 0 .. MaxLevel : ObserveCountFloat(Counter, c)
    \/ \E ratio \in Ratios : PercentileCall(Counter, ratio)
    \/ Return

SpecPercentile == Init /\ [][NextPercentile]_vars

\* 100 * (the hours recorded at the counts up to c), without rounding
HoursUpTo(f, c) == 100 * SumOver(f, {k \in DOMAIN f : k <= c}, FALSE)

\* the counts at which the recorded hours reach ratio percent of all recorded
Reaching(f, ratio) ==
    {c \in DOMAIN f : HoursUpTo(f, c) >= ratio * SumOver(f, DOMAIN f, FALSE)}

\* percentile results in order, float('inf') last
AtMost(p, q) == q.inf \/ (~p.inf /\ p.count <= q.count)

\* C29: percentile(r) returns the smallest observed count up to which the
\* recorded hours reach r percent of all recorded hours, and for a fixed
\* counter percentile(r1) <= percentile(r2) whenever r1 <= r2
C29_Percentile ==
    /\ [][(pc = "idle" /\ call'.op = "percentile") =>
            \A ratio \in Ratios :
                LET f == hc[Counter].hours_for_count
                IN \/ Reaching(f, ratio) = {}
                   \/ /\ call'.result = "count"
                      /\ call'.n \in Reaching(f, ratio)
                      /\ \A c \in Reaching(f, ratio) : call'.n <= c
                   \/ ~PercentileCall(Counter, ratio)]_vars
    /\ [](\A r1, r2 \in Ratios :
              r1 <= r2 => AtMost(Percentile(hc[Counter], r1), Percentile(hc[Counter], r2)))


\* the second half of C29 alone: percentile is non-decreasing in the ratio
C29_Monotone ==
    \A r1, r2 \in Ratios :
        r1 <= r2 => AtMost(Percentile(hc[Counter], r1), Percentile(hc[Counter], r2))


\* ---------------------------------------------------------- histogram
\* the same counter, asked for histograms
NextHistogram ==
    \/ \E t \in Hours : t > clock["R"] /\ RunUntil("R", t)
    \/ RunUntilLoop
    \/ \E c \in 0 .. MaxLevel : ObserveCountFloat(Counter, c)
    \/ \E w \in Widths : HistogramCall(Counter, w)
    \/ Return

SpecHistogram == Init /\ [][NextHistogram]_vars

\* the claim's bucket of count c: floor(c / width) * width, and the bucket
\* below for a count on a positive boundary
BucketOf(c, width) ==
    IF c > 0 /\ c % width = 0 THEN c - width ELSE (c \div width) * width

\* the counts of table f that the claim puts into the bucket of low bound lb
Assigned(f, width, lb) == {c \in DOMAIN f : BucketOf(c, width) = lb}

\* the buckets are those of the counts, each once, in ascending order
BucketsInOrder(f, width, rows) ==
    /\ {rows[i].lb : i \in 1 .. Len(rows)} = {BucketOf(c, width) : c \in DOMAIN f}
    /\ \A i, j \in 1 .. Len(rows) : i < j => rows[i].lb < rows[j].lb

\* the float sum of the hours of the counts assigned to lb, counts ascending
SummedHours2(f, width, lb) ==
    FSum(f, Ascending(Assigned(f, width, lb)), 1, 0)

\* C30: histogram(width) returns the buckets of the recorded counts in
\* ascending order of low bound, a count going to floor(c / width) * width
\* or, on a positive boundary, to the bucket below; the hours of a bucket are
\* the sum of the hours of its counts rounded to two decimals; when the
\* recorded hours sum to 0 histogram raises ZeroDivisionError
C30_Histogram ==
    \A width \in Widths :
        LET f == hc[Counter].hours_for_count
            got == Histogram(hc[Counter], width)
        IN IF f # <<>> /\ SumOver(f, DOMAIN f, FALSE) = 0
           THEN got.raised
           ELSE /\ ~got.raised
                /\ BucketsInOrder(f, width, got.histogram_)
                /\ \A i \in 1 .. Len(got.histogram_) :
                       got.histogram_[i].hours
                           = Round2(SummedHours2(f, width, got.histogram_[i].lb))

\* C30 as stated: the buckets are always returned, and the hours of a
\* bucket equal the sum of the hours of its counts
C30_Original ==
    \A width \in Widths :
        LET f == hc[Counter].hours_for_count
            got == Histogram(hc[Counter], width)
        IN /\ ~got.raised
           /\ BucketsInOrder(f, width, got.histogram_)
           /\ \A i \in 1 .. Len(got.histogram_) :
                  got.histogram_[i].hours
                      = SumOver(f, Assigned(f, width, got.histogram_[i].lb), FALSE)

\* histogram(MaxLevel) has returned two buckets for a counter with hours at
\* count 0, at the boundary count MaxLevel (in the bucket below) and above
C30_Witness ==
    /\ pc = "returned" /\ call.op = "histogram" /\ call.result = "none"
    /\ LET f == hc[Counter].hours_for_count
       IN /\ {0, MaxLevel} \subseteq DOMAIN f
          /\ f[0] > 0 /\ f[MaxLevel] > 0
          /\ Histogram(hc[Counter], MaxLevel).histogram_[1].lb = 0
          /\ Histogram(hc[Counter], MaxLevel).histogram_[1].hours
                 = Round2(FAdd(f[0], f[MaxLevel]))


\* the number of hundredths in a float that round(x, 2) returned
Hundredths(x) == (200 * x + 2^FractionBits) \div (2 * 2^FractionBits)

RECURSIVE RatioSum(_, _, _)
\* the sum of field hour_ratio over the buckets from the i-th on, as
\* given by convert (the hundredths, or the floats themselves)
RatioSum(rows, i, hundredths) ==
    IF i > Len(rows) THEN 0
    ELSE (IF hundredths THEN Hundredths(rows[i].hour_ratio) ELSE rows[i].hour_ratio)
             + RatioSum(rows, i + 1, hundredths)

\* the cumulative ratio does not decrease over the buckets and is 1.0 at
\* the last one
CumulativeOk(rows) ==
    /\ \A i \in 1 .. Len(rows) - 1 : rows[i].cum_hour_ratio <= rows[i + 1].cum_hour_ratio
    /\ Len(rows) > 0 /\ rows[Len(rows)].cum_hour_ratio = 2^FractionBits

C32_FirstEventOnce ==
    [][\A s \in SB :
           (IsRoot(s) /\ isFirst[s] /\ IsRoot(s)') => firstTime'[s] = firstTime[s]]_vars


\* ------------------------------------------------------ monotone clock
\* C33: no step of a schedule, run_once, run_until or other driver call
\* moves the clock of a sandbox back, and an event that is fired has a
\* scheduled time no earlier than the clock left by the events fired before
C33_ClockMonotone ==
    [][/\ \A s \in SB : clock'[s] >= clock[s]
       /\ (cur' # NoEvent /\ cur' # cur) =>
              cur'.scheduled_time >= clock[Delegate(cur'.owner)]]_vars


\* ------------------------------------------------- ownership of events
\* the indexes of the events in the future_event_list of s
Queued(s) == {fel[s][i].index : i \in 1 .. Len(fel[s])}

\* every queued event is in the list of its owner, once, and in no other
EachInOwnList ==
    \A s \in SB :
        /\ \A i \in 1 .. Len(fel[s]) : fel[s][i].owner = s /\ fel[s][i].index \in 1 .. eventCount
        /\ \A i, j \in 1 .. Len(fel[s]) : i # j => fel[s][i].index # fel[s][j].index
        /\ \A t \in SB \ {s} : Queued(s) \cap Queued(t) = {}

\* C34: each event that has not fired is in exactly one future_event_list,
\* that of its owner; the event being fired was taken from that list and is
\* in no list afterwards; and an event that is out of the lists never comes
\* back into one, so that no event is invoked twice
C34_OwnedOnce ==
    /\ [](EachInOwnList /\ (cur # NoEvent => \A s \in SB : cur.index \notin Queued(s)))
    /\ [][/\ (cur' # NoEvent /\ cur' # cur) =>
                 /\ cur' \in Range(fel[cur'.owner])
                 /\ \A s \in SB : cur' \notin Range(fel'[s])
          /\ \A s \in SB : \A e \in Range(fel'[s]) :
                 e \in Range(fel[s]) \/ e.index > eventCount]_vars

\* the root is firing an event of a child while another event waits in the
\* list of a different sandbox
C34_Witness ==
    /\ pc = "invoking" /\ cur # NoEvent
    /\ parent[cur.owner] # None
    /\ \E s \in SB \ {cur.owner} : fel[s] # <<>>


\* ------------------------------------------- one pause, one resume
\* thread t1 makes one call of pause() and thread t2 one call of resume(),
\* on R or on C, which R may adopt before, between or after the calls
NextGateOnce ==
    \/ AddChild("R", "C")
    \/ \E s \in {"R", "C"} : SandboxPause("t1", s)
    \/ \E s \in {"R", "C"} : SandboxResume("t2", s)
    \/ \E th \in Threads : PauseTest(th)
    \/ \E th \in Threads : PauseCreate(th)
    \/ \E th \in Threads : PauseLoad(th)
    \/ \E th \in Threads : PauseWait(th)
    \/ \E th \in Threads : ResumeTest(th)
    \/ \E th \in Threads : ResumeSet(th)
    \/ \E th \in Threads : ResumeClear(th)

SpecGateOnce == Init /\ [][NextGateOnce]_vars

\* C35: when one pause() and one resume() are made on the same root from
\* two threads, neither raises: pause is waiting or has returned true, and
\* resume has returned true or false
C35_NoRaise ==
    threads["t1"].at = threads["t2"].at =>
        /\ threads["t1"].pc = "returned" => threads["t1"].result = "true"
        /\ threads["t2"].pc = "returned" => threads["t2"].result \in {"true", "false"}


\* ---------------------------------------------------------- termination
\* head.invoke() of an action that schedules no event at or before the
\* clock it sees: it returns, raises, or schedules one later event on a
\* sandbox and returns
InvokeLater ==
    \/ InvokeReturn
    \/ InvokeRaise
    \/ \E s \in {"R", "C"}, a \in ClockArgs :
           /\ ~Overflows(s, a) /\ ScheduledTime(s, a) > ClockTime(s)
           /\ InvokeSchedule(s, a)

\* R, which may adopt C, is run with run_until and run_multiple_times over
\* events the user schedules at any instant and the actions schedule later
NextTerminate ==
    \/ AddChild("R", "C")
    \/ \E s \in {"R", "C"}, t \in Time : Schedule(s, [kind |-> "datetime", v |-> t])
    \/ \E t \in Time : RunUntil("R", t)
    \/ \E n \in 0 .. MaxEvents : RunMultipleTimes("R", n)
    \/ RunUntilLoop
    \/ RunMultipleTimesLoop
    \/ InvokeLater
    \/ Return

\* the thread that called the driver keeps running: the loop takes its next
\* pass and the action invoked comes to its end
SpecTerminate ==
    /\ Init /\ [][NextTerminate]_vars
    /\ WF_vars(RunUntilLoop) /\ WF_vars(RunMultipleTimesLoop) /\ WF_vars(InvokeLater)

\* C36: a run_until or run_multiple_times call that has entered its loop
\* returns; run_multiple_times fires an event only while its remaining
\* count is positive and each invocation that returns lowers the count by
\* one, so that it fires at most n events; every event an action adds to the
\* tree that is run is later than the event being fired, so that the events at or before an
\* instant run out
C36_Terminates ==
    /\ (pc = "loop") ~> (pc = "returned")
    /\ [](call.op = "run_multiple_times" => call.n >= 0)
    /\ [][/\ call.op = "run_multiple_times" =>
                 /\ (cur' # NoEvent /\ cur' # cur) => call.n > 0
                 /\ (pc = "invoking" /\ pc' = "loop") => call'.n = call.n - 1
          /\ pc = "invoking" =>
                 \A s \in SubTree(call.at) : \A e \in Range(fel'[s]) \ Range(fel[s]) :
                     e.scheduled_time > cur.scheduled_time]_vars

\* run_until has returned at its terminate time with every event fired,
\* the last of them created while the clock was past its start
C36_Witness ==
    /\ pc = "returned" /\ call.op = "run_until" /\ call.result = "false"
    /\ eventCount = MaxEvents /\ \A s \in SB : fel[s] = <<>>
    /\ isFirst["C"] /\ firstTime["R"] > DatetimeMin


\* -------------------------------------------------- one random stream
\* the user seeds sandboxes, builds the demo model with a seed and runs it
NextSeeds ==
    \/ \E s \in SB, v \in Seeds : SeedCall(s, v)
    \/ \E v \in Seeds : MMcQueuePullInit(v)
    \/ BuildGenerator
    \/ BuildServer
    \/ RunOnce("R")
    \/ GenerateLoad
    \/ GenerateNext
    \/ InvokeStart
    \/ InvokeFinish
    \/ Return

SpecSeeds == Init /\ [][NextSeeds]_vars

RECURSIVE StepN(_, _)
\* the stream state st after n draws
StepN(st, n) == IF n = 0 THEN st ELSE StepN(Stepped(st), n - 1)

\* the demo model stands built and the stream is the default-seeded stream
\* advanced by the draws made so far
DefaultStream ==
    /\ children["R"] = <<"C", "G">> /\ pc # "building"
    /\ rng.np = Seeded(DefaultSeed).np
    /\ rng.py = StepN(Seeded(DefaultSeed).py, demo.draws)

\* C37: constructing or seeding a sandbox leaves the one stream at that
\* sandbox's seed; MMcQueuePull(seed=v) returns with v stored in the root
\* and the stream at the default seed of the children constructed last,
\* whatever v is, and every step of the run that is not a seeding keeps the
\* stream at the default-seeded stream advanced by the draws made
C37_OneStream ==
    [][/\ (call'.op = "seed" /\ pc = "idle") => rng' = Seeded(seed'[call'.at])
       /\ (pc = "idle" /\ pc' = "building") =>
              rng' = Seeded(seed'["R"]) /\ seed'["R"] = call'.terminate
       /\ (pc = "building") => rng' = Seeded(DefaultSeed)
       /\ (pc = "building" /\ pc' = "returned") =>
              /\ seed'["R"] = call.terminate
              /\ DefaultStream'
       /\ (DefaultStream /\ ~(call'.op = "seed" /\ pc = "idle")) => DefaultStream']_vars

\* MMcQueuePull(seed=1) was built after the stream had been seeded with 1,
\* and the run has made a draw from the default-seeded stream
C37_Witness ==
    /\ seed["R"] = 1 /\ seed["C"] = DefaultSeed /\ seed["G"] = DefaultSeed
    /\ DefaultStream
    /\ demo.draws = 1
    /\ rng.py # Seeded(1).py /\ rng.py # StepN(Seeded(1).py, 1)


\* --------------------------------------------------------- demo Server
\* C38: between the events of the demo model, number_in_service.last_count
\* is the number of loads in service_list and at most the capacity, and
\* number_pending.last_count is the number of loads in pending_list
C38_ServerCounts ==
    pc \in {"idle", "returned"} =>
        /\ demo.number_in_service = Len(demo.service_list)
        /\ demo.number_in_service <= Capacity
        /\ demo.number_pending = Len(demo.pending_list)

====
